---- MODULE Spec2Model ----
(***************************************************************************)
(* Model of the AURORA Fluid Studio grid solver, EulerianFluid2D           *)
(* (src/unnamed/part_003), and of the callers that drive it (App.ts).      *)
(*                                                                         *)
(* Numbers.  The solver keeps its fields in Float32Array and computes in   *)
(* doubles: an expression is evaluated (nearly) exactly and rounded when   *)
(* it is stored into a field.  The model keeps that shape with fixed-point *)
(* numbers: a real r is the integer r * Scale, an expression is evaluated  *)
(* exactly as a fraction and rounded to the nearest unit (RoundQ) at the   *)
(* store.  Non-finite values (NaN, Infinity) are not modelled.             *)
(***************************************************************************)
EXTENDS Integers, Sequences, FiniteSets, TLC

VARIABLES fluid, dye, last, nOps, fluid2, hist, hist2, clock, run, app, audio,
          probe, renderer

vars == <<fluid, dye, last, nOps, fluid2, hist, hist2, clock, run, app, audio,
          probe, renderer>>
pairVars == <<fluid2, hist, hist2, clock>>
hostVars == <<app, audio, probe, renderer>>
auxVars == <<probe, renderer>>

(***************************************************************************)
(* Bounds and input sets                                                   *)
(***************************************************************************)
\* Number of solver operations in one behaviour.
MaxOps == 3

\* Number of operations each of two solvers run side by side performs.
MaxPairOps == 3

\* Number of operations in a behaviour that follows step sweep by sweep.
MaxStepOps == 2

\* Fixed-point denominator: the real 1.0 is Scale units.
Scale == 16

\* SimulationParameters records.  viscosity and diffusion are chosen so
\* that a = dt * rate * N * N is of the size it has on the editor's grids
\* (resolution 32..256); dissipation Scale \div 2 is 0.5, Scale is 1.0.
ConfigA == [resolution |-> 2, viscosity |-> 4 * Scale, diffusion |-> 4 * Scale,
            dissipation |-> Scale \div 2, curlStrength |-> 2 * Scale,
            pressureIterations |-> 2]
ConfigB == [resolution |-> 2, viscosity |-> 0, diffusion |-> 0,
            dissipation |-> Scale, curlStrength |-> 0, pressureIterations |-> 1]
ConfigC == [resolution |-> 3, viscosity |-> 0, diffusion |-> 0,
            dissipation |-> Scale, curlStrength |-> 0, pressureIterations |-> 1]
ConfigD == [resolution |-> 3, viscosity |-> 4 * Scale, diffusion |-> 4 * Scale,
            dissipation |-> Scale \div 2, curlStrength |-> 2 * Scale,
            pressureIterations |-> 2]
Configs == {ConfigA, ConfigB, ConfigC, ConfigD}

One == Scale
Half == Scale \div 2
Inner == (3 * Scale) \div 4

\* addImpulse arguments <<x, y, radius, strength, audioFactor>>.
DyeImpulses ==
  { <<Inner, Inner, 1, 25 * One, 0>>,     \* x = y = 0.75, r = 1, strength 25
    <<Half, Half, One, 200 * One, One>>,  \* centre, r = N, strength 200, audio 1
    <<One, One, One, -100 * One, 0>>,     \* x = y = 1, r = N, negative strength
    <<One + 1, Half, 1, 25 * One, 0>> }   \* x just above 1

\* addVelocityImpulse arguments <<x, y, vx, vy, forceStrength>>.
VelImpulses ==
  { <<Half, Half, 1000 * One, 0, 4 * One>>,
    <<One + 1, One, 1000 * One, 1000 * One, One>>,  \* x just above 1
    <<0, Half, 1000 * One, 0, 4 * One>> }           \* x = 0

\* step(dt) arguments: 1/16 s and 1/4 s.
Dts == {1, 4}

(***************************************************************************)
(* Arithmetic                                                              *)
(***************************************************************************)
Min(a, b) == IF a < b THEN a ELSE b
Max(a, b) == IF a > b THEN a ELSE b
Abs(a) == IF a < 0 THEN -a ELSE a

\* The store into a Float32Array: n / d rounded to the nearest unit,
\* halves away from zero (d > 0).
RoundQ(n, d) == IF n >= 0 THEN (2 * n + d) \div (2 * d)
                ELSE -((2 * (-n) + d) \div (2 * d))

\* Body(v), with v evaluated once and shared by its uses in Body.
With(v, Body(_)) == CHOOSE r \in {Body(w) : w \in {v}} : TRUE

\* Math.floor(n / d), d > 0.
Floor(n, d) == n \div d

RECURSIVE ISqrtIn(_, _, _)
ISqrtIn(n, lo, hi) ==
  IF lo >= hi THEN lo
  ELSE LET mid == (lo + hi + 1) \div 2
       IN IF mid * mid <= n THEN ISqrtIn(n, mid, hi) ELSE ISqrtIn(n, lo, mid - 1)

\* floor(sqrt(n)), n >= 0.
ISqrt(n) == ISqrtIn(n, 0, Min(n, 46340))

(***************************************************************************)
(* Grid storage                                                            *)
(***************************************************************************)
\* new Float32Array(n): n zeros, indexed 0..n-1.
NewArray(n) == [k \in 0 .. (n - 1) |-> 0]

\* Array.fill(0)
Fill0(a) == [k \in DOMAIN a |-> 0]

Length(a) == Cardinality(DOMAIN a)

IX(size, x, y) == x + (size + 2) * y

\* The cell coordinates of a linear index.
CellX(size, k) == k % (size + 2)
CellY(size, k) == k \div (size + 2)
Interior(size, k) ==
  /\ CellX(size, k) >= 1 /\ CellX(size, k) <= size
  /\ CellY(size, k) >= 1 /\ CellY(size, k) <= size

FieldNames == {"velocityX", "velocityY", "velocityXPrev", "velocityYPrev",
               "density", "densityPrev", "curl"}

(***************************************************************************)
(* Configuration and lifecycle                                             *)
(***************************************************************************)
construct(config) ==
  LET size == config.resolution
      gridSize == (size + 2) * (size + 2)
  IN [config |-> config, size |-> size, gridSize |-> gridSize,
      velocityX |-> NewArray(gridSize), velocityY |-> NewArray(gridSize),
      velocityXPrev |-> NewArray(gridSize), velocityYPrev |-> NewArray(gridSize),
      density |-> NewArray(gridSize), densityPrev |-> NewArray(gridSize),
      curl |-> NewArray(gridSize)]

\* resize that carries the old cells over into the new arrays.
resizeCopy(f, resolution) ==
  LET gridSize == (resolution + 2) * (resolution + 2)
      copy(a) == [k \in 0 .. (gridSize - 1) |-> IF k \in DOMAIN a THEN a[k] ELSE 0]
  IN [f EXCEPT !.size = resolution, !.gridSize = gridSize,
        !.velocityX = copy(f.velocityX), !.velocityY = copy(f.velocityY),
        !.velocityXPrev = copy(f.velocityXPrev),
        !.velocityYPrev = copy(f.velocityYPrev),
        !.density = copy(f.density), !.densityPrev = copy(f.densityPrev),
        !.curl = copy(f.curl)]

resize(f, resolution) ==
  LET gridSize == (resolution + 2) * (resolution + 2)
  IN [f EXCEPT !.size = resolution, !.gridSize = gridSize,
        !.velocityX = NewArray(gridSize), !.velocityY = NewArray(gridSize),
        !.velocityXPrev = NewArray(gridSize), !.velocityYPrev = NewArray(gridSize),
        !.density = NewArray(gridSize), !.densityPrev = NewArray(gridSize),
        !.curl = NewArray(gridSize)]

\* updateConfig that reallocates on every call.
updateConfigAlwaysResize(f, config) ==
  resize([f EXCEPT !.config = config], config.resolution)

\* updateConfig that adopts the configuration and never reallocates.
updateConfigNoResize(f, config) == [f EXCEPT !.config = config]

updateConfig(f, config) ==
  IF config.resolution # f.config.resolution
  THEN resize([f EXCEPT !.config = config], config.resolution)
  ELSE [f EXCEPT !.config = config]

clearDye(f) ==
  [f EXCEPT !.density = Fill0(f.density), !.densityPrev = Fill0(f.densityPrev)]

\* clearVelocity that leaves the two Prev buffers as they are.
clearVelocityCurrentOnly(f) ==
  [f EXCEPT !.velocityX = Fill0(f.velocityX), !.velocityY = Fill0(f.velocityY)]

clearVelocity(f) ==
  [f EXCEPT !.velocityX = Fill0(f.velocityX), !.velocityY = Fill0(f.velocityY),
            !.velocityXPrev = Fill0(f.velocityXPrev),
            !.velocityYPrev = Fill0(f.velocityYPrev)]

\* reset that forgets the curl buffer.
resetNoCurl(f) == clearDye(clearVelocity(f))

reset(f) ==
  LET g == clearDye(clearVelocity(f))
  IN [g EXCEPT !.curl = Fill0(g.curl)]

(***************************************************************************)
(* Impulses                                                                *)
(***************************************************************************)
\* addImpulse that does not skip the cells outside the interior.
addImpulseNoSkip(f, x, y, radius, strength, audioFactor) ==
  LET N == f.size
      r == Max(Floor(radius * N, Scale), 1)
      centerX == Floor(x * N, Scale)
      centerY == Floor(y * N, Scale)
      impulse == strength * (Scale + audioFactor)
      wNum(i, j) == r * Scale - ISqrt((i * i + j * j) * Scale * Scale)
      den == Scale * r * Scale * 100
      hit(k) == LET i == CellX(N, k) - centerX
                    j == CellY(N, k) - centerY
                IN /\ i >= -r /\ i <= r /\ j >= -r /\ j <= r
                   /\ ~(wNum(i, j) <= 0)
      add(k) == LET i == CellX(N, k) - centerX
                    j == CellY(N, k) - centerY
                IN RoundQ(f.density[k] * den + impulse * wNum(i, j), den)
  IN [f EXCEPT !.density =
        [k \in DOMAIN f.density |-> IF hit(k) THEN add(k) ELSE f.density[k]]]

addImpulse(f, x, y, radius, strength, audioFactor) ==
  LET N == f.size
      r == Max(Floor(radius * N, Scale), 1)
      centerX == Floor(x * N, Scale)
      centerY == Floor(y * N, Scale)
      \* impulse = strength * (1 + audioFactor), in units of 1 / Scale^2
      impulse == strength * (Scale + audioFactor)
      \* weight = 1 - sqrt(i*i + j*j) / r, as wNum(i, j) / (r * Scale)
      wNum(i, j) == r * Scale - ISqrt((i * i + j * j) * Scale * Scale)
      den == Scale * r * Scale * 100
      hit(k) == LET px == CellX(N, k)
                    py == CellY(N, k)
                    i == px - centerX
                    j == py - centerY
                IN /\ i >= -r /\ i <= r /\ j >= -r /\ j <= r
                   /\ ~(px < 1 \/ px > N \/ py < 1 \/ py > N)
                   /\ ~(wNum(i, j) <= 0)
      add(k) == LET i == CellX(N, k) - centerX
                    j == CellY(N, k) - centerY
                IN RoundQ(f.density[k] * den + impulse * wNum(i, j), den)
  IN [f EXCEPT !.density =
        [k \in DOMAIN f.density |-> IF hit(k) THEN add(k) ELSE f.density[k]]]

addVelocityImpulse(f, x, y, vx, vy, forceStrength) ==
  LET N == f.size
      px == Floor(x * N, Scale)
      py == Floor(y * N, Scale)
      idx == IX(N, px, py)
      den == 1000 * Scale
  IN IF px < 1 \/ px > N \/ py < 1 \/ py > N THEN f
     ELSE [f EXCEPT
             !.velocityX[idx] = RoundQ(f.velocityX[idx] * den + vx * forceStrength, den),
             !.velocityY[idx] = RoundQ(f.velocityY[idx] * den + vy * forceStrength, den)]

(***************************************************************************)
(* Dye field read-out                                                      *)
(***************************************************************************)
\* getDyeField that clamps from below only.
getDyeFieldNoUpperClamp(f) ==
  LET N == f.size
  IN [size |-> N,
      data |-> [k \in 0 .. (N * N - 1) |->
                  LET x == (k % N) + 1
                      y == (k \div N) + 1
                  IN Max(0, f.density[IX(N, x, y)])]]

getDyeField(f) ==
  LET N == f.size
  IN [size |-> N,
      data |-> [k \in 0 .. (N * N - 1) |->
                  LET x == (k % N) + 1
                      y == (k \div N) + 1
                  IN Min(Scale, Max(0, f.density[IX(N, x, y)]))]]

(***************************************************************************)
(* Boundary conditions                                                     *)
(***************************************************************************)
\* setBounds with the mirroring rules of b = 1 and b = 2 exchanged.
setBoundsSwapped(f, b, x) ==
  LET N == f.size
      edges == [k \in DOMAIN x |->
                 LET cx == CellX(N, k)
                     cy == CellY(N, k)
                 IN IF cx = 0 /\ cy >= 1 /\ cy <= N
                      THEN (IF b = 2 THEN -x[IX(N, 1, cy)] ELSE x[IX(N, 1, cy)])
                    ELSE IF cx = N + 1 /\ cy >= 1 /\ cy <= N
                      THEN (IF b = 2 THEN -x[IX(N, N, cy)] ELSE x[IX(N, N, cy)])
                    ELSE IF cy = 0 /\ cx >= 1 /\ cx <= N
                      THEN (IF b = 1 THEN -x[IX(N, cx, 1)] ELSE x[IX(N, cx, 1)])
                    ELSE IF cy = N + 1 /\ cx >= 1 /\ cx <= N
                      THEN (IF b = 1 THEN -x[IX(N, cx, N)] ELSE x[IX(N, cx, N)])
                    ELSE x[k]]
  IN With(edges, LAMBDA e :
       [e EXCEPT
          ![IX(N, 0, 0)] = RoundQ(e[IX(N, 1, 0)] + e[IX(N, 0, 1)], 2),
          ![IX(N, 0, N + 1)] = RoundQ(e[IX(N, 1, N + 1)] + e[IX(N, 0, N)], 2),
          ![IX(N, N + 1, 0)] = RoundQ(e[IX(N, N, 0)] + e[IX(N, N + 1, 1)], 2),
          ![IX(N, N + 1, N + 1)] = RoundQ(e[IX(N, N, N + 1)] + e[IX(N, N + 1, N)], 2)])

setBounds(f, b, x) ==
  LET N == f.size
      edges == [k \in DOMAIN x |->
                 LET cx == CellX(N, k)
                     cy == CellY(N, k)
                 IN IF cx = 0 /\ cy >= 1 /\ cy <= N
                      THEN (IF b = 1 THEN -x[IX(N, 1, cy)] ELSE x[IX(N, 1, cy)])
                    ELSE IF cx = N + 1 /\ cy >= 1 /\ cy <= N
                      THEN (IF b = 1 THEN -x[IX(N, N, cy)] ELSE x[IX(N, N, cy)])
                    ELSE IF cy = 0 /\ cx >= 1 /\ cx <= N
                      THEN (IF b = 2 THEN -x[IX(N, cx, 1)] ELSE x[IX(N, cx, 1)])
                    ELSE IF cy = N + 1 /\ cx >= 1 /\ cx <= N
                      THEN (IF b = 2 THEN -x[IX(N, cx, N)] ELSE x[IX(N, cx, N)])
                    ELSE x[k]]
  IN With(edges, LAMBDA e :
       [e EXCEPT
          ![IX(N, 0, 0)] = RoundQ(e[IX(N, 1, 0)] + e[IX(N, 0, 1)], 2),
          ![IX(N, 0, N + 1)] = RoundQ(e[IX(N, 1, N + 1)] + e[IX(N, 0, N)], 2),
          ![IX(N, N + 1, 0)] = RoundQ(e[IX(N, N, 0)] + e[IX(N, N + 1, 1)], 2),
          ![IX(N, N + 1, N + 1)] = RoundQ(e[IX(N, N, N + 1)] + e[IX(N, N + 1, N)], 2)])

(***************************************************************************)
(* Relaxation                                                              *)
(***************************************************************************)
\* One in-place sweep over the interior cells from cell number n on, rows
\* j = 1..N outermost, i = 1..N innermost.  a = aNum / den, c = cNum / den.
RECURSIVE sweep(_, _, _, _, _, _, _)
sweep(N, x, x0, aNum, cNum, den, n) ==
  IF n >= N * N THEN x
  ELSE LET i == (n % N) + 1
           j == (n \div N) + 1
           v == RoundQ(x0[IX(N, i, j)] * den
                         + aNum * (x[IX(N, i - 1, j)] + x[IX(N, i + 1, j)]
                                   + x[IX(N, i, j - 1)] + x[IX(N, i, j + 1)]),
                       cNum)
       IN With([x EXCEPT ![IX(N, i, j)] = v], LAMBDA x1 :
            sweep(N, x1, x0, aNum, cNum, den, n + 1))

RECURSIVE relax(_, _, _, _, _, _, _, _)
relax(f, b, x, x0, aNum, cNum, den, k) ==
  IF k >= f.config.pressureIterations THEN x
  ELSE With(sweep(f.size, x, x0, aNum, cNum, den, 0), LAMBDA x1 :
       With(setBounds(f, b, x1), LAMBDA x2 :
         relax(f, b, x2, x0, aNum, cNum, den, k + 1)))

linearSolve(f, b, x, x0, aNum, cNum, den) == relax(f, b, x, x0, aNum, cNum, den, 0)

diffuse(f, b, x, x0, diff, dt) ==
  LET N == f.size
      \* a = dt * diff * N * N = aNum / Scale^2
      aNum == dt * diff * N * N
      den == Scale * Scale
  IN linearSolve(f, b, x, x0, aNum, den + 4 * aNum, den)

(***************************************************************************)
(* Advection                                                               *)
(***************************************************************************)
\* Positions are kept in units of 1 / Pos of a cell, so that the clamp
\* bounds 0.5 and N + 0.5 and the back-traced coordinate are exact.
Pos == 2 * Scale * Scale

\* The back-traced coordinate without the upper clamp.
advectSourceNoUpperClamp(N, c, v, dt) ==
  LET t == c * Pos - 2 * dt * N * v
  IN IF t < Pos \div 2 THEN Pos \div 2 ELSE t

\* Lines 159-162 and 165-166 of advect, for one axis: c - dt0 * v, clamped
\* to [0.5, N + 0.5].
advectSource(N, c, v, dt) ==
  LET t == c * Pos - 2 * dt * N * v
  IN IF t < Pos \div 2 THEN Pos \div 2
     ELSE IF t > N * Pos + Pos \div 2 THEN N * Pos + Pos \div 2
     ELSE t

advect(f, b, d, d0, velocX, velocY, dt) ==
  LET N == f.size
      \* dt0 = dt * N; dt0 * v = dt * N * v / Scale^2 cells
      src(c, v) == advectSource(N, c, v, dt)
      cell(i, j) ==
        LET x == src(i, velocX[IX(N, i, j)])
            y == src(j, velocY[IX(N, i, j)])
            i0 == Floor(x, Pos)
            i1 == i0 + 1
            j0 == Floor(y, Pos)
            j1 == j0 + 1
            s1 == x - i0 * Pos
            s0 == Pos - s1
            t1 == y - j0 * Pos
            t0 == Pos - t1
        IN RoundQ(s0 * (t0 * d0[IX(N, i0, j0)] + t1 * d0[IX(N, i0, j1)])
                    + s1 * (t0 * d0[IX(N, i1, j0)] + t1 * d0[IX(N, i1, j1)]),
                  Pos * Pos)
  IN With([k \in DOMAIN d |->
             IF Interior(N, k) THEN cell(CellX(N, k), CellY(N, k)) ELSE d[k]],
          LAMBDA d1 : setBounds(f, b, d1))

(***************************************************************************)
(* Projection                                                              *)
(***************************************************************************)
project(f, velocX, velocY, p, div) ==
  LET N == f.size
      div1 == [k \in DOMAIN div |->
                 IF Interior(N, k)
                 THEN LET i == CellX(N, k)
                          j == CellY(N, k)
                      IN RoundQ(-(velocX[IX(N, i + 1, j)] - velocX[IX(N, i - 1, j)]
                                  + velocY[IX(N, i, j + 1)] - velocY[IX(N, i, j - 1)]),
                                2 * N)
                 ELSE div[k]]
      p1 == [k \in DOMAIN p |-> IF Interior(N, k) THEN 0 ELSE p[k]]
      vx1(p3) == [k \in DOMAIN velocX |->
                    IF Interior(N, k)
                    THEN LET i == CellX(N, k)
                             j == CellY(N, k)
                         IN RoundQ(2 * velocX[k]
                                     - N * (p3[IX(N, i + 1, j)] - p3[IX(N, i - 1, j)]), 2)
                    ELSE velocX[k]]
      vy1(p3) == [k \in DOMAIN velocY |->
                    IF Interior(N, k)
                    THEN LET i == CellX(N, k)
                             j == CellY(N, k)
                         IN RoundQ(2 * velocY[k]
                                     - N * (p3[IX(N, i, j + 1)] - p3[IX(N, i, j - 1)]), 2)
                    ELSE velocY[k]]
  IN With(div1, LAMBDA d1 :
     With(p1, LAMBDA q1 :
     With(setBounds(f, 0, d1), LAMBDA div2 :
     With(setBounds(f, 0, q1), LAMBDA p2 :
     With(linearSolve(f, 0, p2, div2, 1, 4, 1), LAMBDA p3 :
     With(vx1(p3), LAMBDA vx2 :
     With(vy1(p3), LAMBDA vy2 :
       [velocX |-> setBounds(f, 1, vx2), velocY |-> setBounds(f, 2, vy2),
        p |-> p3, div |-> div2])))))))

(***************************************************************************)
(* Vorticity confinement                                                   *)
(***************************************************************************)
\* The body of applyVorticityConfinement below its guard: lines 236-264.
confine(f, velocX, velocY, dt) ==
  LET epsilon == f.config.curlStrength
      N == f.size
      curl1 == [k \in DOMAIN f.curl |->
                  IF Interior(N, k)
                  THEN LET i == CellX(N, k)
                           j == CellY(N, k)
                           dw_dy == velocY[IX(N, i + 1, j)] - velocY[IX(N, i - 1, j)]
                           du_dx == velocX[IX(N, i, j + 1)] - velocX[IX(N, i, j - 1)]
                       IN RoundQ(dw_dy - du_dx, 2)
                  ELSE f.curl[k]]
      \* twice Nx and Ny, before normalisation
      Nx2(curl, i, j) == Abs(curl[IX(N, i + 1, j)]) - Abs(curl[IX(N, i - 1, j)])
      Ny2(curl, i, j) == Abs(curl[IX(N, i, j + 1)]) - Abs(curl[IX(N, i, j - 1)])
      \* Scale * hypot(2 Nx, 2 Ny); the 1e-5 added to the length is below
      \* the resolution and only keeps 0 / length = 0 when the gradient is 0.
      len(curl, i, j) ==
        ISqrt((Nx2(curl, i, j) * Nx2(curl, i, j) + Ny2(curl, i, j) * Ny2(curl, i, j))
                * Scale * Scale)
      \* v + n / length * sign * epsilon * vorticity * dt
      push(curl, v, n2, i, j, sign) ==
        IF len(curl, i, j) = 0 THEN v
        ELSE RoundQ(v * len(curl, i, j) * Scale * Scale
                      + sign * n2 * Scale * epsilon * curl[IX(N, i, j)] * dt,
                    len(curl, i, j) * Scale * Scale)
      vx1(curl) == [k \in DOMAIN velocX |->
                      IF Interior(N, k)
                      THEN push(curl, velocX[k], Ny2(curl, CellX(N, k), CellY(N, k)),
                                CellX(N, k), CellY(N, k), -1)
                      ELSE velocX[k]]
      vy1(curl) == [k \in DOMAIN velocY |->
                      IF Interior(N, k)
                      THEN push(curl, velocY[k], Nx2(curl, CellX(N, k), CellY(N, k)),
                                CellX(N, k), CellY(N, k), 1)
                      ELSE velocY[k]]
  IN With(curl1, LAMBDA curl :
     With(vx1(curl), LAMBDA vx2 :
     With(vy1(curl), LAMBDA vy2 :
       [velocX |-> setBounds(f, 1, vx2), velocY |-> setBounds(f, 2, vy2),
        curl |-> curl])))

\* applyVorticityConfinement that pushes the velocity but leaves the curl
\* buffer as it found it.
applyVorticityConfinementKeepCurl(f, velocX, velocY, dt) ==
  IF f.config.curlStrength <= 0
  THEN [velocX |-> velocX, velocY |-> velocY, curl |-> f.curl]
  ELSE [confine(f, velocX, velocY, dt) EXCEPT !.curl = f.curl]

\* applyVorticityConfinement without the early return of line 234.
applyVorticityConfinementNoGuard(f, velocX, velocY, dt) ==
  confine(f, velocX, velocY, dt)

applyVorticityConfinement(f, velocX, velocY, dt) ==
  LET epsilon == f.config.curlStrength
  IN IF epsilon <= 0
     THEN [velocX |-> velocX, velocY |-> velocY, curl |-> f.curl]
     ELSE confine(f, velocX, velocY, dt)

(***************************************************************************)
(* Dissipation and the step                                                *)
(***************************************************************************)
\* applyDissipation that skips the ghost ring.
applyDissipationInterior(f) ==
  [f EXCEPT !.density =
     [k \in DOMAIN f.density |->
        IF Interior(f.size, k)
          THEN RoundQ(f.density[k] * f.config.dissipation, Scale)
          ELSE f.density[k]]]

applyDissipation(f) ==
  LET factor == f.config.dissipation
  IN [f EXCEPT !.density = [i \in DOMAIN f.density |->
                              RoundQ(f.density[i] * factor, Scale)]]

\* The velocity, as the two advections of step leave it: lines 67-72.
\* This is what applyVorticityConfinement is handed.
postAdvection(f, dt) ==
  LET visc == f.config.viscosity
  IN With(diffuse(f, 1, f.velocityXPrev, f.velocityX, visc, dt), LAMBDA xp1 :
     With(diffuse(f, 2, f.velocityYPrev, f.velocityY, visc, dt), LAMBDA yp1 :
     With(project(f, xp1, yp1, f.velocityX, f.velocityY), LAMBDA pr1 :
     With(advect(f, 1, pr1.p, pr1.velocX, pr1.velocX, pr1.velocY, dt), LAMBDA x2 :
     With(advect(f, 2, pr1.div, pr1.velocY, pr1.velocX, pr1.velocY, dt), LAMBDA y2 :
       [velocX |-> x2, velocY |-> y2, velocXPrev |-> pr1.velocX,
        velocYPrev |-> pr1.velocY])))))

\* The velocity phases of step: lines 67-74.
stepVelocity(f, dt) ==
  LET visc == f.config.viscosity
  IN With(diffuse(f, 1, f.velocityXPrev, f.velocityX, visc, dt), LAMBDA xp1 :
     With(diffuse(f, 2, f.velocityYPrev, f.velocityY, visc, dt), LAMBDA yp1 :
     \* project(velocityXPrev, velocityYPrev, velocityX, velocityY)
     With(project(f, xp1, yp1, f.velocityX, f.velocityY), LAMBDA pr1 :
     With(advect(f, 1, pr1.p, pr1.velocX, pr1.velocX, pr1.velocY, dt), LAMBDA x2 :
     With(advect(f, 2, pr1.div, pr1.velocY, pr1.velocX, pr1.velocY, dt), LAMBDA y2 :
     With(applyVorticityConfinement(f, x2, y2, dt), LAMBDA vc :
     \* project(velocityX, velocityY, velocityXPrev, velocityYPrev)
     With(project(f, vc.velocX, vc.velocY, pr1.velocX, pr1.velocY), LAMBDA pr2 :
       [f EXCEPT !.velocityX = pr2.velocX, !.velocityY = pr2.velocY,
                 !.velocityXPrev = pr2.p, !.velocityYPrev = pr2.div,
                 !.curl = vc.curl])))))))

\* The density phases before dissipation: lines 76-77.
stepDensity(f, dt) ==
  LET diff == f.config.diffusion
  IN With(diffuse(f, 0, f.densityPrev, f.density, diff, dt), LAMBDA dp :
     With(advect(f, 0, f.density, dp, f.velocityX, f.velocityY, dt), LAMBDA d1 :
       [f EXCEPT !.densityPrev = dp, !.density = d1]))

\* step that takes its time step from the frame clock as well.
stepByClock(f, dt) ==
  With(f, LAMBDA f0 :
  With(stepVelocity(f0, dt + clock), LAMBDA f1 :
  With(stepDensity(f1, dt + clock), LAMBDA f2 : applyDissipation(f2))))

step(f, dt) ==
  With(f, LAMBDA f0 :
  With(stepVelocity(f0, dt), LAMBDA f1 :
  With(stepDensity(f1, dt), LAMBDA f2 : applyDissipation(f2))))

(***************************************************************************)
(* step, statement by statement                                            *)
(*                                                                         *)
(* The calls of step in the order of lines 67-78, each working in place on *)
(* the buffers it is handed, and the iteration loop of linearSolve one     *)
(* sweep at a time.                                                        *)
(***************************************************************************)
Phases == <<"diffuseVX", "diffuseVY", "projectPrev", "advectVX", "advectVY",
            "vorticity", "projectCur", "diffuseD", "advectD", "dissipate">>

\* The buffers each call that runs linearSolve is handed: x is the buffer
\* solved for, x0 its right-hand side.
SolveArgs ==
  [diffuseVX |-> [kind |-> "diffuse", b |-> 1, x |-> "velocityXPrev", x0 |-> "velocityX"],
   diffuseVY |-> [kind |-> "diffuse", b |-> 2, x |-> "velocityYPrev", x0 |-> "velocityY"],
   diffuseD |-> [kind |-> "diffuse", b |-> 0, x |-> "densityPrev", x0 |-> "density"],
   projectPrev |-> [kind |-> "project", b |-> 0, x |-> "velocityX", x0 |-> "velocityY",
                    velocX |-> "velocityXPrev", velocY |-> "velocityYPrev"],
   projectCur |-> [kind |-> "project", b |-> 0, x |-> "velocityXPrev", x0 |-> "velocityYPrev",
                   velocX |-> "velocityX", velocY |-> "velocityY"]]

SolvePhases == DOMAIN SolveArgs

\* The statement after ph; "idle" after the last one.
NextPhaseOneProjection(ph) ==
  IF ph = "vorticity" THEN "diffuseD"
  ELSE IF ph = "dissipate" THEN "idle"
  ELSE Phases[(CHOOSE i \in DOMAIN Phases : Phases[i] = ph) + 1]

NextPhase(ph) ==
  IF ph = "dissipate" THEN "idle"
  ELSE Phases[(CHOOSE i \in DOMAIN Phases : Phases[i] = ph) + 1]

\* project up to linearSolve without setBounds(0, p): the ghost ring of the
\* pressure buffer keeps what it held.
projectPreInteriorOnly(f, velocX, velocY, p, div) ==
  LET N == f.size
      div1 == [k \in DOMAIN div |->
                 IF Interior(N, k)
                 THEN LET i == CellX(N, k)
                          j == CellY(N, k)
                      IN RoundQ(-(velocX[IX(N, i + 1, j)] - velocX[IX(N, i - 1, j)]
                                  + velocY[IX(N, i, j + 1)] - velocY[IX(N, i, j - 1)]),
                                2 * N)
                 ELSE div[k]]
      p1 == [k \in DOMAIN p |-> IF Interior(N, k) THEN 0 ELSE p[k]]
  IN [div |-> setBounds(f, 0, div1), p |-> p1]

\* project up to its call of linearSolve: lines 188-200.
projectPre(f, velocX, velocY, p, div) ==
  LET N == f.size
      div1 == [k \in DOMAIN div |->
                 IF Interior(N, k)
                 THEN LET i == CellX(N, k)
                          j == CellY(N, k)
                      IN RoundQ(-(velocX[IX(N, i + 1, j)] - velocX[IX(N, i - 1, j)]
                                  + velocY[IX(N, i, j + 1)] - velocY[IX(N, i, j - 1)]),
                                2 * N)
                 ELSE div[k]]
      p1 == [k \in DOMAIN p |-> IF Interior(N, k) THEN 0 ELSE p[k]]
  IN [div |-> setBounds(f, 0, div1), p |-> setBounds(f, 0, p1)]

\* project after linearSolve: lines 203-210.
projectPost(f, velocX, velocY, p) ==
  LET N == f.size
      vx1 == [k \in DOMAIN velocX |->
                IF Interior(N, k)
                THEN LET i == CellX(N, k)
                         j == CellY(N, k)
                     IN RoundQ(2 * velocX[k]
                                 - N * (p[IX(N, i + 1, j)] - p[IX(N, i - 1, j)]), 2)
                ELSE velocX[k]]
      vy1 == [k \in DOMAIN velocY |->
                IF Interior(N, k)
                THEN LET i == CellX(N, k)
                         j == CellY(N, k)
                     IN RoundQ(2 * velocY[k]
                                 - N * (p[IX(N, i, j + 1)] - p[IX(N, i, j - 1)]), 2)
                ELSE velocY[k]]
  IN [velocX |-> setBounds(f, 1, vx1), velocY |-> setBounds(f, 2, vy1)]

\* The loop test of linearSolve: line 215.
sweepsLeftInclusive(f, k) == k <= f.config.pressureIterations

sweepsLeft(f, k) == k < f.config.pressureIterations

\* The body of the loop of linearSolve: lines 216-228.
solveSweepNoBounds(f, b, x, x0, aNum, cNum, den) ==
  sweep(f.size, x, x0, aNum, cNum, den, 0)

solveSweep(f, b, x, x0, aNum, cNum, den) ==
  With(sweep(f.size, x, x0, aNum, cNum, den, 0), LAMBDA x1 : setBounds(f, b, x1))

\* What the call ph does before its first sweep; all of it for a call
\* that does not run linearSolve.
EnterPhase(f, ph, dt) ==
  CASE ph \in {"diffuseVX", "diffuseVY", "diffuseD"} -> f
    [] ph \in {"projectPrev", "projectCur"} ->
         LET a == SolveArgs[ph]
         IN With(projectPre(f, f[a.velocX], f[a.velocY], f[a.x], f[a.x0]), LAMBDA r :
              [f EXCEPT ![a.x] = r.p, ![a.x0] = r.div])
    [] ph = "advectVX" ->
         [f EXCEPT !.velocityX = advect(f, 1, f.velocityX, f.velocityXPrev,
                                        f.velocityXPrev, f.velocityYPrev, dt)]
    [] ph = "advectVY" ->
         [f EXCEPT !.velocityY = advect(f, 2, f.velocityY, f.velocityYPrev,
                                        f.velocityXPrev, f.velocityYPrev, dt)]
    [] ph = "vorticity" ->
         With(applyVorticityConfinement(f, f.velocityX, f.velocityY, dt), LAMBDA r :
           [f EXCEPT !.velocityX = r.velocX, !.velocityY = r.velocY, !.curl = r.curl])
    [] ph = "advectD" ->
         [f EXCEPT !.density = advect(f, 0, f.density, f.densityPrev,
                                      f.velocityX, f.velocityY, dt)]
    [] ph = "dissipate" -> applyDissipation(f)

\* One sweep of the linearSolve that the call ph runs.
SweepPhase(f, ph, dt) ==
  LET a == SolveArgs[ph]
      rate == IF ph = "diffuseD" THEN f.config.diffusion ELSE f.config.viscosity
      aNum == IF a.kind = "diffuse" THEN dt * rate * f.size * f.size ELSE 1
      den == IF a.kind = "diffuse" THEN Scale * Scale ELSE 1
      cNum == IF a.kind = "diffuse" THEN den + 4 * aNum ELSE 4
  IN [f EXCEPT ![a.x] = solveSweep(f, a.b, f[a.x], f[a.x0], aNum, cNum, den)]

\* What the call ph does after its last sweep.
ExitPhase(f, ph) ==
  IF ph \in {"projectPrev", "projectCur"}
    THEN LET a == SolveArgs[ph]
         IN With(projectPost(f, f[a.velocX], f[a.velocY], f[a.x]), LAMBDA r :
              [f EXCEPT ![a.velocX] = r.velocX, ![a.velocY] = r.velocY])
    ELSE f

(***************************************************************************)
(* The solver driven through its public operations                         *)
(***************************************************************************)
\* 'simulation:reset', emitted by the editor's Clear Simulation button.
OnSimulationReset(f) == reset(f)

NoDye == [size |-> 0, data |-> <<>>]

\* last records the operation that led to the state, its arguments and the
\* solver as it was before the operation.
Did(op, arg) == /\ last' = [op |-> op, arg |-> arg, pre |-> fluid]
                /\ nOps' = nOps + 1
                /\ UNCHANGED <<pairVars, run, hostVars>>

\* The configuration two solvers run side by side are constructed with.
PairConfig == ConfigC

\* No step is being executed.
RunIdle == [pc |-> "idle", k |-> 0, sweeps |-> 0, solves |-> <<>>,
            trace |-> <<>>, dt |-> 0, start |-> 0]

(***************************************************************************)
(* The application around the solver                                       *)
(*                                                                         *)
(* app is the state of App and of the objects it owns besides the solver:  *)
(* the PointerController, the ParamStore, the FrameTimer and the           *)
(* accumulator of the frame callback.  audio is the AudioAnalyser.         *)
(*                                                                         *)
(* Time is counted in ticks, TicksPerStep of them to one TARGET_DT.        *)
(***************************************************************************)
\* Number of animation frames in one behaviour.
MaxFrames == 2

\* Number of animation frames in a behaviour that follows the accumulator.
MaxTimedFrames == 3

\* Number of animation frames in a behaviour that follows the microphone.
MaxAudioFrames == 1

\* Number of editor and store changes in one behaviour.
MaxChanges == 2

\* Ticks in one fixed step.
TicksPerStep == 2

\* TARGET_DT = 1 / 60: fixed steps per second.
StepsPerSecond == 60

TicksPerSecond == StepsPerSecond * TicksPerStep

\* TARGET_DT in ticks.
TARGET_DT == TicksPerSecond \div StepsPerSecond

\* The 0.1 s of FrameTimer.delta, in ticks.
MaxDelta == TicksPerSecond \div 10

\* TARGET_DT as step receives it: in units of 1 / Scale s, the smallest
\* positive one at least.
StepDt == Max(RoundQ(Scale, StepsPerSecond), 1)

\* getBoundingClientRect of the canvas.  The canvas shares the container
\* with the editor pane, which lies left of it.
Viewport == [left |-> 2, right |-> 6, top |-> 2, bottom |-> 6,
             width |-> 4, height |-> 4]

\* clientX, clientY of pointer events: a point of the canvas right of and
\* above its centre, a point over the editor pane.
PointerPositions == {<<5, 3>>, <<1, 3>>}

\* PointerEvent.buttons: none, left, right, left + right, middle,
\* left + middle.
Buttons == {0, 1, 2, 3, 4, 5}

\* Time between two pointer events, in units of 0.1 ms: half a second.
PointerGaps == {5000}

\* Timestamp of the first animation frame, and the time from one frame to
\* the next: the same timestamp, less than a step, a step, 0.1 s, a stall
\* of 0.4 s.
FirstFrameTimes == {1}
FrameGaps == {0, 1, TARGET_DT, MaxDelta, 4 * MaxDelta}

\* What getFloatFrequencyData yields for a band, normalised: 0, 0.5, 1.
BandValues == {0, Half, One}

\* defaultPreset.state, with the simulation parameters of a small grid.
DefaultSimulation == ConfigA
DefaultEmitter == [brushRadius |-> 1, brushStrength |-> 25 * One,
                   forceStrength |-> 250 * One, audioBand |-> 4]
DefaultRendering == [mode |-> "gradient", exposure |-> One,
                     bloomStrength |-> Scale \div 3]
DefaultAudio == [active |-> FALSE]
PresetState(sim) == [simulation |-> sim, rendering |-> DefaultRendering,
                     audio |-> DefaultAudio, emitters |-> DefaultEmitter]

\* new App(container): the store holds a clone of the default preset, the
\* solver is constructed with the store's state.simulation itself, the
\* pointer controller listens.  simState is the object the editor's
\* Simulation inputs are bound to, the state.simulation of construction;
\* storeHoldsSimState and fluidHoldsSimState tell whether the store's
\* state.simulation and the solver's config are that very object.
\* rendererConfig is the renderer's own clone of state.rendering, renderState
\* the object the editor's Rendering inputs are bound to and
\* storeHoldsRenderState whether the store's state.rendering is that object;
\* modeSelected is the mode of the last 'render:mode' event since the last
\* preset, "none" if there was none.  initialised tells that init() has
\* returned, disposed that dispose() has been called.
AppInit(sim) ==
  [running |-> FALSE,
   isPressed |-> FALSE, position |-> <<0, 0>>, velocity |-> <<0, 0>>,
   held |-> 0, released |-> FALSE,
   state |-> PresetState(sim),
   simState |-> sim, storeHoldsSimState |-> TRUE, fluidHoldsSimState |-> TRUE,
   rendererConfig |-> DefaultRendering, renderState |-> DefaultRendering,
   storeHoldsRenderState |-> TRUE, modeSelected |-> "none",
   initialised |-> FALSE, disposed |-> FALSE,
   timerLast |-> 0, accumulator |-> 0,
   frames |-> 0, changes |-> 0, fed |-> 0, strength |-> 0, calls |-> <<>>]

\* new AudioAnalyser().  analyser and dataArray tell whether the fields are
\* set, pending counts the activate calls waiting for getUserMedia,
\* notified the calls of activation listeners, rejected the getUserMedia
\* promises that were rejected, logged the failures the editor's click
\* handler has caught, unhandled those that left it.  context tells whether
\* an AudioContext is stored, calls counts the calls of activate and
\* dispose, and disposed tells that dispose has returned and activate has
\* not been called since.
AudioInit ==
  [active |-> FALSE, analyser |-> FALSE, dataArray |-> FALSE, pending |-> 0,
   notified |-> 0, rejected |-> 0, logged |-> 0, unhandled |-> 0,
   context |-> FALSE, calls |-> 0, disposed |-> FALSE]


\* No function is being probed.
NoProbe == [of |-> "none"]

\* new FluidRenderer(container, config): no device, no context, not
\* disposed.  device, context, fallback and ready tell whether device,
\* context and fallbackContext are set and webgpuReady is true, listening
\* whether resize is registered on window, armed whether a device.lost
\* handler is waiting.  init and lost are where init() and
\* handleDeviceLost stand: "idle" when not running, "adapter" and "device"
\* while their setupWebGPU waits for requestAdapter and requestDevice,
\* "returning" while init waits for a setupWebGPU that returned at once.
\* drawn is what the last call of render drew with, renders and resizes
\* count the calls of render and the resize events delivered.
RendererInit ==
  [disposed |-> FALSE, device |-> FALSE, context |-> FALSE, ready |-> FALSE,
   fallback |-> FALSE, listening |-> FALSE, armed |-> FALSE,
   init |-> "idle", lost |-> "idle", drawn |-> "none", renders |-> 0,
   resizes |-> 0]

\* The configurations a solver is constructed with.
InitConfigs == {ConfigA, ConfigC}

Init ==
  /\ \E c \in InitConfigs :
       /\ fluid = construct(c)
       /\ last = [op |-> "construct", arg |-> c, pre |-> construct(c)]
  /\ dye = NoDye
  /\ nOps = 0
  /\ fluid2 = construct(PairConfig)
  /\ hist = <<>>
  /\ hist2 = <<>>
  /\ clock = 0
  /\ run = RunIdle
  /\ app = AppInit(fluid.config)
  /\ audio = AudioInit
  /\ probe = NoProbe
  /\ renderer = RendererInit

UpdateConfig ==
  /\ nOps < MaxOps
  /\ \E c \in Configs : fluid' = updateConfig(fluid, c) /\ Did("updateConfig", c)
  /\ UNCHANGED dye

ClearSimulation ==
  /\ nOps < MaxOps
  /\ fluid' = OnSimulationReset(fluid)
  /\ Did("reset", <<>>)
  /\ UNCHANGED dye

ClearDye ==
  /\ nOps < MaxOps
  /\ fluid' = clearDye(fluid)
  /\ Did("clearDye", <<>>)
  /\ UNCHANGED dye

ClearVelocity ==
  /\ nOps < MaxOps
  /\ fluid' = clearVelocity(fluid)
  /\ Did("clearVelocity", <<>>)
  /\ UNCHANGED dye

AddImpulse ==
  /\ nOps < MaxOps
  /\ \E a \in DyeImpulses :
       /\ fluid' = addImpulse(fluid, a[1], a[2], a[3], a[4], a[5])
       /\ Did("addImpulse", a)
  /\ UNCHANGED dye

AddVelocityImpulse ==
  /\ nOps < MaxOps
  /\ \E a \in VelImpulses :
       /\ fluid' = addVelocityImpulse(fluid, a[1], a[2], a[3], a[4], a[5])
       /\ Did("addVelocityImpulse", a)
  /\ UNCHANGED dye

Step ==
  /\ nOps < MaxOps
  /\ \E dt \in Dts : fluid' = step(fluid, dt) /\ Did("step", dt)
  /\ UNCHANGED dye

GetDyeField ==
  /\ nOps < MaxOps
  /\ dye' = getDyeField(fluid)
  /\ Did("getDyeField", <<>>)
  /\ UNCHANGED fluid

Next ==
  \/ UpdateConfig
  \/ ClearSimulation
  \/ ClearDye
  \/ ClearVelocity
  \/ AddImpulse
  \/ AddVelocityImpulse
  \/ Step
  \/ GetDyeField

Spec == Init /\ [][Next]_vars

(***************************************************************************)
(* Two solvers side by side                                                *)
(*                                                                         *)
(* fluid and fluid2 are two EulerianFluid2D instances constructed with the *)
(* same configuration.  hist and hist2 record the operations each has      *)
(* performed.  clock is the frame time of the host, which advances with    *)
(* every operation and which the solver is never handed.                   *)
(***************************************************************************)
PairOps ==
  { [op |-> "addImpulse", arg |-> <<Inner, Inner, 1, 200 * One, One>>],
    [op |-> "addVelocityImpulse", arg |-> <<Half, Half, 1000 * One, 0, 4 * One>>],
    [op |-> "step", arg |-> 4],
    [op |-> "updateConfig", arg |-> ConfigD] }

Apply(f, o) ==
  CASE o.op = "addImpulse" ->
         addImpulse(f, o.arg[1], o.arg[2], o.arg[3], o.arg[4], o.arg[5])
    [] o.op = "addVelocityImpulse" ->
         addVelocityImpulse(f, o.arg[1], o.arg[2], o.arg[3], o.arg[4], o.arg[5])
    [] o.op = "step" -> step(f, o.arg)
    [] o.op = "updateConfig" -> updateConfig(f, o.arg)

InitPair ==
  /\ fluid = construct(PairConfig)
  /\ fluid2 = construct(PairConfig)
  /\ hist = <<>>
  /\ hist2 = <<>>
  /\ clock = 0
  /\ dye = NoDye
  /\ nOps = 0
  /\ last = [op |-> "construct", arg |-> PairConfig, pre |-> construct(PairConfig)]
  /\ run = RunIdle
  /\ app = AppInit(fluid.config)
  /\ audio = AudioInit
  /\ probe = NoProbe
  /\ renderer = RendererInit

First ==
  /\ Len(hist) < MaxPairOps
  /\ \E o \in PairOps : fluid' = Apply(fluid, o) /\ hist' = Append(hist, o)
  /\ clock' = clock + 1
  /\ UNCHANGED <<fluid2, hist2, dye, last, nOps, run, hostVars>>

Second ==
  /\ Len(hist2) < MaxPairOps
  /\ \E o \in PairOps : fluid2' = Apply(fluid2, o) /\ hist2' = Append(hist2, o)
  /\ clock' = clock + 1
  /\ UNCHANGED <<fluid, hist, dye, last, nOps, run, hostVars>>

NextPair == First \/ Second

SpecPair == InitPair /\ [][NextPair]_vars

\* The second solver repeats the operations of the first, in order, each at
\* a later time.
Replay ==
  /\ Len(hist2) < Len(hist)
  /\ LET o == hist[Len(hist2) + 1]
     IN fluid2' = Apply(fluid2, o) /\ hist2' = Append(hist2, o)
  /\ clock' = clock + 1
  /\ UNCHANGED <<fluid, hist, dye, last, nOps, run, hostVars>>

NextReplay == First \/ Replay

SpecReplay == InitPair /\ [][NextReplay]_vars

(***************************************************************************)
(* setBounds on its own                                                    *)
(*                                                                         *)
(* setBounds is private; the solver applies it to the fields, to their     *)
(* Prev buffers and to the pressure and divergence scratch.  Here it is    *)
(* applied, with each b, to the arrays as impulses leave them.             *)
(***************************************************************************)
BoundedFields == FieldNames \ {"curl"}

ApplyBounds ==
  /\ nOps < MaxOps
  /\ \E b \in 0 .. 2, n \in BoundedFields :
       /\ fluid' = [fluid EXCEPT ![n] = setBounds(fluid, b, fluid[n])]
       /\ Did("setBounds", <<b, n>>)
  /\ UNCHANGED dye

NextBounds == AddImpulse \/ AddVelocityImpulse \/ ApplyBounds

SpecBounds == Init /\ [][NextBounds]_vars

(***************************************************************************)
(* step as a process                                                       *)
(*                                                                         *)
(* run.pc is the call of step being executed, run.k the sweeps the current *)
(* linearSolve has done, run.solves the sweeps of each linearSolve that    *)
(* has returned, run.trace the calls that have returned.  A step runs to   *)
(* completion: no other operation starts while one is being executed.      *)
(***************************************************************************)
BeginStepWithin(bound) ==
  /\ run.pc = "idle"
  /\ nOps < bound
  /\ \E dt \in Dts :
       /\ run' = [pc |-> Phases[1], k |-> 0, sweeps |-> 0, solves |-> <<>>,
                  trace |-> <<>>, dt |-> dt, start |-> fluid]
       /\ fluid' = EnterPhase(fluid, Phases[1], dt)
  /\ UNCHANGED <<dye, last, nOps, pairVars, hostVars>>

Sweep ==
  /\ run.pc \in SolvePhases
  /\ sweepsLeft(fluid, run.k)
  /\ fluid' = SweepPhase(fluid, run.pc, run.dt)
  /\ run' = [run EXCEPT !.k = @ + 1, !.sweeps = @ + 1]
  /\ UNCHANGED <<dye, last, nOps, pairVars, hostVars>>

Advance ==
  /\ run.pc # "idle"
  /\ run.pc \in SolvePhases => ~sweepsLeft(fluid, run.k)
  /\ LET np == NextPhase(run.pc)
         solves == IF run.pc \in SolvePhases
                     THEN Append(run.solves, run.k) ELSE run.solves
     IN /\ run' = [run EXCEPT !.pc = np, !.k = 0, !.solves = solves,
                              !.trace = Append(@, run.pc)]
        /\ IF np = "idle"
             THEN /\ fluid' = ExitPhase(fluid, run.pc)
                  /\ last' = [op |-> "step", arg |-> run.dt, pre |-> run.start]
                  /\ nOps' = nOps + 1
             ELSE /\ fluid' = With(ExitPhase(fluid, run.pc), LAMBDA f1 :
                                  EnterPhase(f1, np, run.dt))
                  /\ UNCHANGED <<last, nOps>>
  /\ UNCHANGED <<dye, pairVars, hostVars>>

BeginStep == BeginStepWithin(MaxOps)

Between == run.pc = "idle" /\ (AddImpulse \/ AddVelocityImpulse)

NextStep == Between \/ BeginStep \/ Sweep \/ Advance

SpecStep == Init /\ [][NextStep]_vars

\* The same process over shorter histories, with the scheduling the code
\* has: the loop of linearSolve and the statements of step are
\* straight-line code, so once a step has begun each of them is executed.
BeginShortStep == BeginStepWithin(MaxStepOps)

BetweenShort ==
  run.pc = "idle" /\ nOps < MaxStepOps /\ (AddImpulse \/ AddVelocityImpulse)

NextStepShort == BetweenShort \/ BeginShortStep \/ Sweep \/ Advance

SpecStepFair ==
  Init /\ [][NextStepShort]_vars /\ WF_vars(Sweep) /\ WF_vars(Advance)

(***************************************************************************)
(* Pointer input                                                           *)
(***************************************************************************)
InViewport(x, y) ==
  ~(x < Viewport.left \/ y < Viewport.top \/ x > Viewport.right
      \/ y > Viewport.bottom)

\* App.handlePointer
handlePointer(a, x, y, left, right) ==
  IF ~left /\ ~right THEN a
  ELSE IF ~InViewport(x, y) THEN [a EXCEPT !.isPressed = FALSE]
  ELSE [a EXCEPT !.isPressed = left]

\* The listener App.init hands to pointer.onMove.
onMove(a, position, left, right) ==
  IF ~a.running THEN a
  ELSE handlePointer(a, position[1], position[2], left, right)

\* PointerController.emitMove: the left and right bits of event.buttons.
emitMove(a, buttons) ==
  onMove(a, a.position, buttons % 2 = 1, (buttons \div 2) % 2 = 1)

\* PointerController.updatePosition; gap is now - lastMoveTime in units of
\* 0.1 ms, the velocity is in pixels per second.
updatePosition(a, position, gap) ==
  LET dt == Max(gap, 1)
  IN [a EXCEPT !.velocity = <<RoundQ((position[1] - a.position[1]) * 10000, dt),
                              RoundQ((position[2] - a.position[2]) * 10000, dt)>>,
               !.position = position]

handlePointerDown(a, buttons, position, gap) ==
  emitMove(updatePosition([a EXCEPT !.isPressed = (buttons = 1)], position, gap),
           buttons)

handlePointerMove(a, buttons, position, gap) ==
  emitMove(updatePosition(IF buttons = 0 THEN [a EXCEPT !.isPressed = FALSE] ELSE a,
                          position, gap),
           buttons)

handlePointerUp(a, buttons, position, gap) ==
  emitMove(updatePosition(IF buttons = 0 THEN [a EXCEPT !.isPressed = FALSE] ELSE a,
                          position, gap),
           buttons)

\* What the pointer events so far say about the left button: released is
\* set by an event without the left button and cleared by an event with the
\* left button inside the viewport.  held is the buttons that are down.
Seen(a, buttons, position) ==
  [a EXCEPT !.held = buttons,
            !.released = IF buttons % 2 = 0 THEN TRUE
                         ELSE IF InViewport(position[1], position[2]) THEN FALSE
                         ELSE @]

\* A button goes down while none was: pointerdown, on the container.
PointerDown ==
  /\ app.held = 0
  /\ \E buttons \in {1, 2, 4}, position \in PointerPositions, gap \in PointerGaps :
       app' = Seen(handlePointerDown(app, buttons, position, gap),
                   buttons, position)
  /\ UNCHANGED <<fluid, dye, last, nOps, pairVars, run, auxVars, audio>>

\* buttons is held with at most one button pressed or released.
OneButtonApart(held, buttons) ==
  \/ buttons = held
  \/ \E bit \in {1, 2, 4} : buttons \in {held + bit, held - bit}
                            /\ (Max(held, buttons) \div bit) % 2 = 1
                            /\ (Min(held, buttons) \div bit) % 2 = 0

\* The pointer moves or, while a button stays down, another button goes
\* down or up: pointermove, on the window.  With no button known to be
\* down, the buttons of the event are those pressed away from the container.
PointerMove ==
  /\ \E buttons \in Buttons, position \in PointerPositions, gap \in PointerGaps :
       /\ app.held # 0 => buttons # 0 /\ OneButtonApart(app.held, buttons)
       /\ app' = Seen(handlePointerMove(app, buttons, position, gap),
                      buttons, position)
  /\ UNCHANGED <<fluid, dye, last, nOps, pairVars, run, auxVars, audio>>

\* The last button goes up: pointerup, on the window.
PointerUp ==
  /\ app.held # 0
  /\ \E position \in PointerPositions, gap \in PointerGaps :
       app' = Seen(handlePointerUp(app, 0, position, gap), 0, position)
  /\ UNCHANGED <<fluid, dye, last, nOps, pairVars, run, auxVars, audio>>

(***************************************************************************)
(* The frame callback                                                      *)
(***************************************************************************)
\* FrameTimer.delta that hands on the whole time since the last frame.
deltaUncapped(timerLast, time) ==
  IF timerLast = 0 THEN [last |-> time, dt |-> 0]
  ELSE [last |-> time, dt |-> time - timerLast]

\* FrameTimer.delta: the new last and the value returned, in ticks.
delta(timerLast, time) ==
  IF timerLast = 0 THEN [last |-> time, dt |-> 0]
  ELSE [last |-> time, dt |-> Min(time - timerLast, MaxDelta)]

\* AudioAnalyser.getBandValue, with the normalised magnitude of the band as
\* getFloatFrequencyData reports it and the default gain 1.0.
getBandValue(au, band) ==
  IF ~au.analyser \/ ~au.dataArray THEN 0 ELSE Max(0, Min(One, band))

normX(a) == RoundQ((a.position[1] - Viewport.left) * One, Viewport.width)
normY(a) == One - RoundQ((a.position[2] - Viewport.top) * One, Viewport.height)

\* s is the solver and the calls the frame has made on it so far.
Called(s, name, f) == [fluid |-> f, calls |-> Append(s.calls, name)]

\* App.ts 103-107
emitDye(s, a, audioStrength) ==
  IF a.isPressed
    THEN Called(s, "addImpulse",
                addImpulse(s.fluid, normX(a), normY(a),
                           a.state.emitters.brushRadius,
                           a.state.emitters.brushStrength, audioStrength))
    ELSE s

\* App.ts 109-118
emitVelocity(s, a) ==
  IF a.isPressed
    THEN Called(s, "addVelocityImpulse",
                addVelocityImpulse(s.fluid, normX(a), normY(a),
                                   a.velocity[1] * One, -(a.velocity[2] * One),
                                   a.state.emitters.forceStrength))
    ELSE s

\* A drain loop that renders after each step.
RECURSIVE drainRenderEach(_, _)
drainRenderEach(s, accumulator) ==
  IF accumulator >= TARGET_DT
    THEN With(Called(s, "step", step(s.fluid, StepDt)), LAMBDA s1 :
                drainRenderEach(Called(s1, "getDyeField", s1.fluid),
                                accumulator - TARGET_DT))
    ELSE [fluid |-> s.fluid, calls |-> s.calls, accumulator |-> accumulator]

\* App.ts 120-123: while (accumulator >= TARGET_DT) { step; accumulator -= }
RECURSIVE drain(_, _)
drain(s, accumulator) ==
  IF accumulator >= TARGET_DT
    THEN With(Called(s, "step", step(s.fluid, StepDt)), LAMBDA s1 :
                drain(s1, accumulator - TARGET_DT))
    ELSE [fluid |-> s.fluid, calls |-> s.calls, accumulator |-> accumulator]

FrameTimes(timerLast) ==
  IF timerLast = 0 THEN FirstFrameTimes ELSE {timerLast + g : g \in FrameGaps}

\* init has finished: listeners are registered, start() has set running and
\* requested the first frame.
Start ==
  /\ ~app.initialised
  /\ ~app.running
  /\ app' = [app EXCEPT !.running = TRUE, !.accumulator = 0, !.initialised = TRUE]
  /\ UNCHANGED <<fluid, dye, last, nOps, pairVars, run, auxVars, audio>>

\* One call of the frame callback (App.ts 90-126).
FrameWithin(bound) ==
  /\ app.running
  /\ app.frames < bound
  /\ \E time \in FrameTimes(app.timerLast),
        band \in (IF app.state.audio.active /\ audio.analyser
                    THEN BandValues ELSE {0}) :
       LET t == delta(app.timerLast, time)
           audioStrength == IF app.state.audio.active
                              THEN getBandValue(audio, band) ELSE 0
           s0 == [fluid |-> fluid, calls |-> <<>>]
       IN \E s \in {drain(emitVelocity(emitDye(s0, app, audioStrength), app),
                          app.accumulator + t.dt)} :
            /\ fluid' = s.fluid
            /\ dye' = getDyeField(s.fluid)
            /\ app' = [app EXCEPT !.timerLast = t.last,
                                  !.accumulator = s.accumulator,
                                  !.fed = t.dt,
                                  !.strength = audioStrength,
                                  !.calls = Append(s.calls, "getDyeField"),
                                  !.frames = @ + 1]
  /\ UNCHANGED <<last, nOps, pairVars, run, auxVars, audio>>

\* new App(container), before init has finished.
InitApp ==
  /\ fluid = construct(DefaultSimulation)
  /\ last = [op |-> "construct", arg |-> DefaultSimulation,
             pre |-> construct(DefaultSimulation)]
  /\ dye = NoDye
  /\ nOps = 0
  /\ fluid2 = construct(PairConfig)
  /\ hist = <<>>
  /\ hist2 = <<>>
  /\ clock = 0
  /\ run = RunIdle
  /\ app = AppInit(DefaultSimulation)
  /\ audio = AudioInit
  /\ probe = NoProbe
  /\ renderer = RendererInit

Frame == FrameWithin(MaxFrames)

NextPointer == Start \/ PointerDown \/ PointerMove \/ PointerUp \/ Frame

SpecPointer == InitApp /\ [][NextPointer]_vars

\* Longer runs of frames, with the pointer going down at some time.
TimedFrame == FrameWithin(MaxTimedFrames)

NextTimed == Start \/ PointerDown \/ TimedFrame

SpecTimed == InitApp /\ [][NextTimed]_vars

(***************************************************************************)
(* The parameter store and the editor                                      *)
(*                                                                         *)
(* h is the application and its solver, [app |-> ..., fluid |-> ...].      *)
(* ParamStore replaces its state, and the part it updates, by new objects; *)
(* the parts it does not update stay the objects they were.                *)
(***************************************************************************)
\* App.ts 78-81, the listener handed to paramStore.onChange: the solver
\* adopts state.simulation, the object itself, and the renderer clones
\* state.rendering (FluidRenderer.updateConfig).
onChange(h) ==
  [app |-> [h.app EXCEPT !.fluidHoldsSimState = h.app.storeHoldsSimState,
                         !.rendererConfig = h.app.state.rendering],
   fluid |-> updateConfig(h.fluid, h.app.state.simulation)]

\* ParamStore.notify: the one listener there is.
notify(h) == onChange(h)

updateSimulation(h, key, value) ==
  notify([h EXCEPT !.app.state.simulation[key] = value,
                   !.app.storeHoldsSimState = FALSE])

updateRendering(h, key, value) ==
  notify([h EXCEPT !.app.state.rendering[key] = value,
                   !.app.storeHoldsRenderState = FALSE])

updateEmitter(h, key, value) ==
  notify([h EXCEPT !.app.state.emitters[key] = value])

updateAudio(h, key, value) ==
  notify([h EXCEPT !.app.state.audio[key] = value])

setAudioActive(h, active) ==
  IF h.app.state.audio.active = active THEN h ELSE updateAudio(h, "active", active)

\* setState({ simulation }): the caller's object becomes state.simulation.
setState(h, simulation) ==
  notify([h EXCEPT !.app.state.simulation = simulation,
                   !.app.storeHoldsSimState = FALSE])

applyPreset(h, preset) ==
  notify([h EXCEPT !.app.state = preset, !.app.storeHoldsSimState = FALSE,
                   !.app.storeHoldsRenderState = FALSE])

\* App.ts 60-64, the handler of 'presets:apply'.
presetsApply(h, preset) ==
  With(applyPreset(h, preset), LAMBDA h1 :
         [app |-> [h1.app EXCEPT !.fluidHoldsSimState = h1.app.storeHoldsSimState,
                                 !.rendererConfig = h1.app.state.rendering,
                                 !.modeSelected = "none"],
          fluid |-> updateConfig(h1.fluid, h1.app.state.simulation)])

\* FluidRenderer.setMode
setMode(h, mode) ==
  IF h.app.rendererConfig.mode = mode THEN h
  ELSE [h EXCEPT !.app.rendererConfig.mode = mode]

\* App.ts 66-68, the handler of 'render:mode'.
onRenderMode(h, mode) == [setMode(h, mode) EXCEPT !.app.modeSelected = mode]

\* An input of the editor's Rendering folder changes: the input is bound to
\* renderState (addInput(rendering, key)), so the new value is first
\* written into that object, which the store's state.rendering may be.
bindingWriteRendering(h, key, value) ==
  [h EXCEPT !.app.renderState[key] = value,
            !.app.state.rendering = IF h.app.storeHoldsRenderState
                                      THEN [@ EXCEPT ![key] = value] ELSE @]

\* An input of the editor's Simulation folder changes: the input is bound to
\* simState (addInput(simState, key)), so the new value is first written
\* into that object, and into whatever else is that object.
bindingWrite(h, key, value) ==
  [app |-> [h.app EXCEPT
              !.simState[key] = value,
              !.state.simulation = IF h.app.storeHoldsSimState
                                     THEN [@ EXCEPT ![key] = value] ELSE @],
   fluid |-> IF h.app.fluidHoldsSimState
               THEN [h.fluid EXCEPT !.config[key] = value] ELSE h.fluid]

\* The values the editor's inputs are changed to.
SimulationInputs ==
  {<<"resolution", 2>>, <<"resolution", 3>>,
   <<"pressureIterations", 1>>, <<"pressureIterations", 2>>}
EmitterInputs == {<<"brushStrength", 200 * One>>, <<"brushRadius", One>>}
RenderingInputs == {<<"exposure", 2 * One>>}

\* The presets of the editor's list.
Presets == {PresetState(DefaultSimulation), PresetState(ConfigC)}

\* What setState is handed as simulation.
StateInputs == {ConfigD}

Here == [app |-> app, fluid |-> fluid]

DeliverWithin(h, bound) ==
  /\ app.running
  /\ app.changes < bound
  /\ app' = [h.app EXCEPT !.changes = @ + 1]
  /\ fluid' = h.fluid
  /\ UNCHANGED <<dye, last, nOps, pairVars, run, auxVars, audio>>

Deliver(h) == DeliverWithin(h, MaxChanges)

\* FluidRenderer.ts 731-744
SimulationInput ==
  \E input \in SimulationInputs :
    /\ app.simState[input[1]] # input[2]
    /\ Deliver(updateSimulation(bindingWrite(Here, input[1], input[2]),
                                input[1], input[2]))

\* FluidRenderer.ts 749-759
EmitterInput ==
  \E input \in EmitterInputs : Deliver(updateEmitter(Here, input[1], input[2]))

\* FluidRenderer.ts 769-773
RenderingInput ==
  \E input \in RenderingInputs :
    /\ app.renderState[input[1]] # input[2]
    /\ Deliver(updateRendering(bindingWriteRendering(Here, input[1], input[2]),
                               input[1], input[2]))

\* FluidRenderer.ts 786-797: the smoothing and gain inputs
AudioInput == Deliver(setAudioActive(Here, TRUE))

\* FluidRenderer.ts 810-815
PresetsApply == \E preset \in Presets : Deliver(presetsApply(Here, preset))

SetState == \E simulation \in StateInputs : Deliver(setState(Here, simulation))

NextStore ==
  \/ Start \/ PointerDown \/ Frame
  \/ SimulationInput \/ EmitterInput \/ RenderingInput \/ AudioInput
  \/ PresetsApply \/ SetState

SpecStore == InitApp /\ [][NextStore]_vars

(***************************************************************************)
(* The render mode                                                         *)
(***************************************************************************)
MaxRenderChanges == 3

Modes == {"gradient", "emitter", "distortion"}

\* FluidRenderer.ts 763-768: the mode input emits 'render:mode'.
ModeInput ==
  \E mode \in Modes :
    /\ app.renderState.mode # mode
    /\ DeliverWithin(onRenderMode(bindingWriteRendering(Here, "mode", mode), mode),
                     MaxRenderChanges)

\* FluidRenderer.ts 769-771: the exposure input.
ExposureInput ==
  \E input \in RenderingInputs :
    /\ app.renderState[input[1]] # input[2]
    /\ DeliverWithin(updateRendering(bindingWriteRendering(Here, input[1], input[2]),
                                     input[1], input[2]), MaxRenderChanges)

\* FluidRenderer.ts 749-759: an input of the Emitter folder.
EmitterChange ==
  \E input \in EmitterInputs :
    DeliverWithin(updateEmitter(Here, input[1], input[2]), MaxRenderChanges)

\* FluidRenderer.ts 810-815: a preset of the list.
PresetChange ==
  \E preset \in Presets : DeliverWithin(presetsApply(Here, preset), MaxRenderChanges)

NextRender == Start \/ ModeInput \/ ExposureInput \/ EmitterChange \/ PresetChange

SpecRender == InitApp /\ [][NextRender]_vars

(***************************************************************************)
(* Microphone activation                                                   *)
(*                                                                         *)
(* activate() is asynchronous: it runs up to `await getUserMedia(...)`     *)
(* when called and goes on when the promise is settled.  Between the two   *)
(* anything else may run, another activate() included.                     *)
(***************************************************************************)
\* AudioAnalyser.ts 11-13: returns at once when active, otherwise creates a
\* context and waits for the microphone.
activateCalled(au) ==
  IF au.active THEN [au EXCEPT !.calls = @ + 1, !.disposed = FALSE]
  ELSE [au EXCEPT !.pending = @ + 1, !.calls = @ + 1, !.disposed = FALSE]

\* AudioAnalyser.ts 14-24, after getUserMedia has been fulfilled; the
\* listeners are called by activateResolved's caller.
activateResolved(au) ==
  [au EXCEPT !.pending = @ - 1, !.context = TRUE, !.analyser = TRUE,
             !.dataArray = TRUE, !.active = TRUE, !.notified = @ + 1]

\* activate that stores its nodes and tells its listeners before it learns
\* that the microphone was refused.
activateRejectedAfterStoring(au) ==
  [au EXCEPT !.pending = @ - 1, !.rejected = @ + 1, !.analyser = TRUE,
             !.dataArray = TRUE, !.notified = @ + 1]

\* AudioAnalyser.ts 13: the await throws, activate's promise is rejected.
activateRejected(au) == [au EXCEPT !.pending = @ - 1, !.rejected = @ + 1]

\* FluidRenderer.ts 780-784: try { await activate() } catch { console.error }
clickHandlerCatches(au) == [au EXCEPT !.logged = @ + 1]

\* App.ts 70-76, the listener handed to analyser.onActivationChange.
onActivationChange(h, active) == setAudioActive(h, active)

\* The 'Enable Microphone' button is clicked.
ClickEnableMicrophone ==
  /\ app.running
  /\ app.changes < MaxChanges
  /\ audio' = activateCalled(audio)
  /\ app' = [app EXCEPT !.changes = @ + 1]
  /\ UNCHANGED <<fluid, dye, last, nOps, pairVars, run, auxVars>>

\* The user grants the microphone.
GetUserMediaResolves ==
  /\ audio.pending > 0
  /\ audio' = activateResolved(audio)
  /\ \E h \in {onActivationChange(Here, TRUE)} :
       app' = h.app /\ fluid' = h.fluid
  /\ UNCHANGED <<dye, last, nOps, pairVars, run, auxVars>>

\* The user refuses the microphone, or there is none.
GetUserMediaRejects ==
  /\ audio.pending > 0
  /\ audio' = clickHandlerCatches(activateRejected(audio))
  /\ UNCHANGED <<app, fluid, dye, last, nOps, pairVars, run, auxVars>>

\* A frame, to ask the analyser for its band.
AudioFrame == FrameWithin(MaxAudioFrames)

NextAudio ==
  \/ Start \/ PointerDown \/ AudioFrame \/ AudioInput
  \/ ClickEnableMicrophone \/ GetUserMediaResolves \/ GetUserMediaRejects

SpecAudio == InitApp /\ [][NextAudio]_vars

(***************************************************************************)
(* Disposal of the analyser                                                *)
(***************************************************************************)
MaxAnalyserCalls == 5

\* AudioAnalyser.ts 27-34; the listeners are called by dispose's caller.
dispose(au) ==
  [au EXCEPT !.context = FALSE, !.analyser = FALSE, !.dataArray = FALSE,
             !.active = FALSE, !.notified = @ + 1, !.calls = @ + 1,
             !.disposed = TRUE]

\* analyser.activate() is called.
Activate ==
  /\ app.running
  /\ audio.calls < MaxAnalyserCalls
  /\ audio' = activateCalled(audio)
  /\ UNCHANGED <<app, fluid, dye, last, nOps, pairVars, run, auxVars>>

\* analyser.dispose() is called.
AnalyserDispose ==
  /\ app.running
  /\ audio.calls < MaxAnalyserCalls
  /\ audio' = dispose(audio)
  /\ \E h \in {onActivationChange(Here, FALSE)} :
       app' = h.app /\ fluid' = h.fluid
  /\ UNCHANGED <<dye, last, nOps, pairVars, run, auxVars>>

NextDispose ==
  \/ Start \/ Activate \/ AnalyserDispose
  \/ GetUserMediaResolves \/ GetUserMediaRejects

SpecDispose == InitApp /\ [][NextDispose]_vars

(***************************************************************************)
(* The renderer's initialisation and disposal                              *)
(*                                                                         *)
(* init, setupWebGPU and handleDeviceLost are asynchronous: each runs up   *)
(* to its next await and goes on when the promise is fulfilled, and        *)
(* dispose may be called in between.  Whether an adapter, a WebGPU context *)
(* and a 2D context are to be had is the browser's choice.                 *)
(***************************************************************************)
\* AudioAnalyser.ts 678-711
destroyGPUResources(r) ==
  [r EXCEPT !.context = FALSE, !.device = FALSE, !.ready = FALSE]

\* AudioAnalyser.ts 371-380; with no 2D context it throws after destroying.
setupFallback2D(r, twoD) ==
  IF twoD THEN [destroyGPUResources(r) EXCEPT !.fallback = TRUE, !.ready = FALSE]
  ELSE destroyGPUResources(r)

\* The caller of setupWebGPU goes on with its result: init at lines
\* 209-213, handleDeviceLost at lines 720-722.  A throwing setupFallback2D
\* ends the caller there.
setupReturned(r, who, ok, twoD) ==
  With(IF ok THEN r ELSE setupFallback2D(r, twoD), LAMBDA r1 :
    IF who = "init"
      THEN [r1 EXCEPT !.init = "done",
                      !.listening = IF ok \/ twoD THEN TRUE ELSE @]
      ELSE [r1 EXCEPT !.lost = "idle"])

\* init up to its await: lines 206-208 and setupWebGPU up to its first
\* await or return (lines 269-278).
rendererInit(r, gpu) ==
  [r EXCEPT !.disposed = FALSE, !.init = IF gpu THEN "adapter" ELSE "returning"]

\* setupWebGPU after requestAdapter: lines 278-281.
adapterReturned(r, who, adapter, twoD) ==
  IF ~adapter \/ r.disposed THEN setupReturned(r, who, FALSE, twoD)
  ELSE [r EXCEPT ![who] = "device"]

\* setupWebGPU after requestDevice: lines 283-368.
deviceReturned(r, who, webgpu, twoD) ==
  IF r.disposed THEN setupReturned(r, who, FALSE, twoD)
  ELSE With(destroyGPUResources(r), LAMBDA r1 :
         IF ~webgpu \/ r1.disposed THEN setupReturned(r1, who, FALSE, twoD)
         ELSE setupReturned([r1 EXCEPT !.device = TRUE, !.context = TRUE,
                                       !.ready = TRUE, !.armed = TRUE],
                            who, TRUE, twoD))

\* AudioAnalyser.ts 713-719, up to the await of setupWebGPU's requestAdapter.
handleDeviceLost(r) ==
  IF r.disposed THEN [r EXCEPT !.armed = FALSE]
  ELSE [destroyGPUResources(r) EXCEPT !.armed = FALSE, !.lost = "adapter"]

\* AudioAnalyser.ts 216-223
rendererDispose(r) ==
  [destroyGPUResources([r EXCEPT !.disposed = TRUE, !.listening = FALSE])
     EXCEPT !.fallback = FALSE]

\* AudioAnalyser.ts 236-242, 382-385, 435-438: render draws with WebGPU
\* when webgpuReady and the device and context are there, with the 2D
\* context when not webgpuReady and there is one, and not at all otherwise.
render(r) ==
  [r EXCEPT !.renders = @ + 1,
            !.drawn = IF r.ready THEN (IF r.device /\ r.context THEN "webgpu" ELSE "none")
                      ELSE IF r.fallback THEN "2d" ELSE "none"]

\* AudioAnalyser.ts 515-528, the listener of window's resize.
resizeListener(r) == [r EXCEPT !.resizes = @ + 1]

MaxRenders == 2
MaxResizes == 1

RendererUnchanged ==
  UNCHANGED <<fluid, dye, last, nOps, pairVars, run, app, audio, probe>>

\* renderer.init() is called, once, by App.init.
RendererInitCalled ==
  /\ renderer.init = "idle"
  /\ ~renderer.disposed
  /\ \E gpu \in BOOLEAN : renderer' = rendererInit(renderer, gpu)
  /\ RendererUnchanged

\* init goes on after a setupWebGPU that found no navigator.gpu.
InitResumes ==
  /\ renderer.init = "returning"
  /\ \E twoD \in BOOLEAN : renderer' = setupReturned(renderer, "init", FALSE, twoD)
  /\ RendererUnchanged

RequestAdapterFulfilled ==
  /\ \E who \in {"init", "lost"}, adapter \in BOOLEAN, twoD \in BOOLEAN :
       /\ renderer[who] = "adapter"
       /\ renderer' = adapterReturned(renderer, who, adapter, twoD)
  /\ RendererUnchanged

RequestDeviceFulfilled ==
  /\ \E who \in {"init", "lost"}, webgpu \in BOOLEAN, twoD \in BOOLEAN :
       /\ renderer[who] = "device"
       /\ renderer' = deviceReturned(renderer, who, webgpu, twoD)
  /\ RendererUnchanged

\* The device whose lost promise is being waited for is lost.
DeviceLost ==
  /\ renderer.armed
  /\ renderer.lost = "idle"
  /\ renderer' = handleDeviceLost(renderer)
  /\ RendererUnchanged

RendererDispose ==
  /\ ~renderer.disposed
  /\ renderer' = rendererDispose(renderer)
  /\ RendererUnchanged

\* A frame asks the renderer to render.
Render ==
  /\ renderer.renders < MaxRenders
  /\ renderer' = render(renderer)
  /\ RendererUnchanged

\* The window is resized.
WindowResize ==
  /\ renderer.listening
  /\ renderer.resizes < MaxResizes
  /\ renderer' = resizeListener(renderer)
  /\ RendererUnchanged

NextRenderer ==
  \/ RendererInitCalled \/ InitResumes \/ RequestAdapterFulfilled
  \/ RequestDeviceFulfilled \/ DeviceLost \/ RendererDispose
  \/ Render \/ WindowResize

SpecRenderer == InitApp /\ [][NextRenderer]_vars

(***************************************************************************)
(* Disposal of the application                                             *)
(*                                                                         *)
(* init() waits for renderer.init() and then registers its listeners and   *)
(* calls start(), which is the action Start; dispose() may be called       *)
(* before or after.                                                        *)
(***************************************************************************)
\* App.ts 131-138.  The pending frame is cancelled and running cleared; the
\* analyser's listener exists once init has registered it.
appDispose(h, au, r) ==
  With(IF h.app.initialised THEN onActivationChange(h, FALSE) ELSE h, LAMBDA h1 :
    [app |-> [h1.app EXCEPT !.running = FALSE, !.disposed = TRUE],
     fluid |-> h1.fluid,
     audio |-> dispose(au),
     renderer |-> rendererDispose(r)])

AppDispose ==
  /\ ~app.disposed
  /\ \E r \in {appDispose(Here, audio, renderer)} :
       app' = r.app /\ fluid' = r.fluid /\ audio' = r.audio /\ renderer' = r.renderer
  /\ UNCHANGED <<dye, last, nOps, pairVars, run, probe>>

\* PointerController.dispose removes the three listeners (lines 42-46).
ListenedPointerDown == ~app.disposed /\ PointerDown

NextLifecycle == Start \/ ListenedPointerDown \/ Frame \/ AppDispose

SpecLifecycle == InitApp /\ [][NextLifecycle]_vars

(***************************************************************************)
(* advect, one destination cell at a time                                  *)
(*                                                                         *)
(* probe holds the cell, the velocity found there and what lines 159-168   *)
(* of advect compute from them.                                            *)
(***************************************************************************)
\* Grid sizes, and velocities in units of 1 / Scale: none, one unit, a
\* quarter and four cells per second, and values far beyond the grid.
ProbeSizes == {2, 3}
ProbeVelocities ==
  {-1000000, -4 * Scale, -(Scale \div 4), -1, 0, 1, Scale \div 4, 4 * Scale,
   1000000}

advectIndices(N, i, j, vx, vy, dt) ==
  LET x == advectSource(N, i, vx, dt)
      y == advectSource(N, j, vy, dt)
      i0 == Floor(x, Pos)
      j0 == Floor(y, Pos)
  IN [x |-> x, y |-> y, i0 |-> i0, i1 |-> i0 + 1, j0 |-> j0, j1 |-> j0 + 1]

AdvectCell ==
  /\ probe = NoProbe
  /\ \E N \in ProbeSizes, vx \in ProbeVelocities, vy \in ProbeVelocities,
        dt \in Dts :
       \E i \in 1 .. N, j \in 1 .. N :
         probe' = [of |-> "advect", N |-> N, i |-> i, j |-> j, vx |-> vx,
                   vy |-> vy, dt |-> dt, at |-> advectIndices(N, i, j, vx, vy, dt)]
  /\ UNCHANGED <<fluid, dye, last, nOps, pairVars, run, app, audio, renderer>>

NextAdvect == AdvectCell

SpecAdvect == InitApp /\ [][NextAdvect]_vars

(***************************************************************************)
(* Steps with configuration changes between them                           *)
(***************************************************************************)
MaxCurlOps == 4

\* ConfigB with a negative confinement strength.
ConfigE == [ConfigB EXCEPT !.curlStrength = -Scale]

\* The configurations of one resolution: updateConfig keeps the buffers.
CurlConfigs == {ConfigA, ConfigB, ConfigE}

CurlUpdateConfig ==
  /\ nOps < MaxCurlOps
  /\ \E c \in CurlConfigs : fluid' = updateConfig(fluid, c) /\ Did("updateConfig", c)
  /\ UNCHANGED dye

CurlImpulse ==
  /\ nOps < MaxCurlOps
  /\ \E a \in VelImpulses :
       /\ fluid' = addVelocityImpulse(fluid, a[1], a[2], a[3], a[4], a[5])
       /\ Did("addVelocityImpulse", a)
  /\ UNCHANGED dye

CurlStep ==
  /\ nOps < MaxCurlOps
  /\ \E dt \in Dts : fluid' = step(fluid, dt) /\ Did("step", dt)
  /\ UNCHANGED dye

NextCurl == CurlUpdateConfig \/ CurlImpulse \/ CurlStep

SpecCurl == InitApp /\ [][NextCurl]_vars

(***************************************************************************)
(* Properties                                                              *)
(***************************************************************************)
AllZero(a) == \A k \in DOMAIN a : a[k] = 0
SomeCell(a) == \E k \in DOMAIN a : a[k] # 0
FieldsZero(f) == \A n \in FieldNames : AllZero(f[n])
SameFields(f, g) == \A n \in FieldNames : f[n] = g[n]
SomeInterior(f, a, P(_)) == \E k \in DOMAIN a : Interior(f.size, k) /\ P(a[k])

\* C1: updateConfig with a resolution other than the current one leaves
\* every cell of all seven fields at 0, whatever they held, and
\* getDyeField() then reports the new resolution as its size.
C1_ResizeZeroesFields ==
  (last.op = "updateConfig" /\ last.arg.resolution # last.pre.config.resolution)
    => /\ FieldsZero(fluid)
       /\ getDyeField(fluid).size = last.arg.resolution

C1_Witness ==
  /\ last.op = "updateConfig"
  /\ last.arg.resolution # last.pre.config.resolution
  /\ SomeCell(last.pre.density)
  /\ SomeCell(last.pre.velocityX)

\* C2: updateConfig with the current resolution adopts the new
\* configuration and leaves the seven fields and the grid size as they were.
C2_SameResolutionKeepsFields ==
  (last.op = "updateConfig" /\ last.arg.resolution = last.pre.config.resolution)
    => /\ fluid.config = last.arg
       /\ SameFields(fluid, last.pre)
       /\ fluid.size = last.pre.size
       /\ fluid.gridSize = last.pre.gridSize

C2_Witness ==
  /\ last.op = "updateConfig"
  /\ last.arg.resolution = last.pre.config.resolution
  /\ last.arg # last.pre.config
  /\ SomeCell(last.pre.density)
  /\ SomeCell(last.pre.velocityX)

\* C3: in every reachable state each of the seven arrays has (N+2)^2
\* cells, N being the solver's size, and N is the resolution of the
\* configuration adopted last.
C3_ArrayLengths ==
  /\ fluid.size = fluid.config.resolution
  /\ fluid.gridSize = (fluid.size + 2) * (fluid.size + 2)
  /\ \A n \in FieldNames :
       DOMAIN fluid[n] = 0 .. ((fluid.size + 2) * (fluid.size + 2) - 1)

C3_Witness ==
  /\ last.op = "updateConfig"
  /\ last.pre.size # fluid.size
  /\ Length(fluid.density) # Length(last.pre.density)
  /\ Length(fluid.density) = (last.arg.resolution + 2) * (last.arg.resolution + 2)

\* C4: addImpulse and addVelocityImpulse with a coordinate outside
\* [0,1]^2 leave every field as it was.
OutsideUnitSquare(x, y) == x < 0 \/ x > One \/ y < 0 \/ y > One

C4_OutsideIsNoOp ==
  (last.op \in {"addImpulse", "addVelocityImpulse"}
     /\ OutsideUnitSquare(last.arg[1], last.arg[2]))
    => fluid = last.pre

\* C5: getDyeField() returns size N and N*N values, the value at
\* (y-1)*N + (x-1) being density[x, y] of the interior cell clamped to
\* [0,1]: every value lies in [0,1] and no ghost cell appears.
C5_DyeFieldClamped ==
  last.op = "getDyeField"
    => LET N == fluid.size
       IN /\ dye.size = N
          /\ DOMAIN dye.data = 0 .. (N * N - 1)
          /\ \A x \in 1 .. N, y \in 1 .. N :
               LET v == fluid.density[IX(N, x, y)]
                   out == dye.data[(y - 1) * N + (x - 1)]
               IN /\ out >= 0 /\ out <= One
                  /\ (v < 0 => out = 0)
                  /\ (v > One => out = One)
                  /\ (v >= 0 /\ v <= One => out = v)

C5_Witness ==
  /\ last.op = "getDyeField"
  /\ SomeInterior(fluid, fluid.density, LAMBDA v : v > One)
  /\ SomeInterior(fluid, fluid.density, LAMBDA v : v < 0)
  /\ SomeInterior(fluid, fluid.density, LAMBDA v : v > 0 /\ v < One)

\* C6: reset(), which the editor's Clear Simulation action invokes through
\* 'simulation:reset', zeroes all seven fields and leaves the
\* configuration, the grid size and the array lengths as they were.
C6_ResetZeroesFields ==
  last.op = "reset"
    => /\ FieldsZero(fluid)
       /\ fluid.config = last.pre.config
       /\ fluid.size = last.pre.size
       /\ fluid.gridSize = last.pre.gridSize
       /\ \A n \in FieldNames : DOMAIN fluid[n] = DOMAIN last.pre[n]

C6_Witness ==
  /\ last.op = "reset"
  /\ SomeCell(last.pre.velocityX)
  /\ SomeCell(last.pre.velocityXPrev)
  /\ SomeCell(last.pre.curl)

\* C7: clearDye() zeroes density and densityPrev and nothing else;
\* clearVelocity() zeroes the four velocity arrays and nothing else.
DyeFields == {"density", "densityPrev"}
VelocityFields == {"velocityX", "velocityY", "velocityXPrev", "velocityYPrev"}

C7_ClearOnlyNamedFields ==
  /\ last.op = "clearDye"
       => /\ \A n \in DyeFields : AllZero(fluid[n])
          /\ \A n \in FieldNames \ DyeFields : fluid[n] = last.pre[n]
          /\ fluid.config = last.pre.config /\ fluid.size = last.pre.size
  /\ last.op = "clearVelocity"
       => /\ \A n \in VelocityFields : AllZero(fluid[n])
          /\ \A n \in FieldNames \ VelocityFields : fluid[n] = last.pre[n]
          /\ fluid.config = last.pre.config /\ fluid.size = last.pre.size

C7_Witness ==
  /\ last.op = "clearVelocity"
  /\ SomeCell(last.pre.velocityX)
  /\ SomeCell(last.pre.velocityYPrev)
  /\ SomeCell(last.pre.curl)

C7_WitnessDye ==
  /\ last.op = "clearDye"
  /\ SomeCell(last.pre.density)
  /\ SomeCell(last.pre.densityPrev)

Cur(f) == <<f.velocityX, f.velocityY, f.density>>

C9_StepIgnoresScratch ==
  (Cur(fluid) = Cur(fluid2) /\ fluid.config = fluid2.config)
    => Cur(step(fluid, 4)) = Cur(step(fluid2, 4))

\* C10 as stated: with d < 1 every step leaves the sum of density over the
\* interior cells strictly below what it was before the step.
RECURSIVE SumTo(_, _)
SumTo(a, k) == IF k < 0 THEN 0 ELSE a[k] + SumTo(a, k - 1)
Total(f) ==
  SumTo([k \in DOMAIN f.density |->
           IF Interior(f.size, k) THEN f.density[k] ELSE 0],
        Length(f.density) - 1)

C10_TotalStrictlyDecreases ==
  (last.op = "step" /\ last.pre.config.dissipation < One)
    => Total(fluid) < Total(last.pre)

\* C10, amended: step ends by multiplying every cell of density, ghost
\* cells included, by d.  With d < 1 no cell grows in magnitude over that
\* phase, and where the density after advection is nowhere negative the
\* total after the step does not exceed the total after advection.
BeforeDissipation == stepDensity(stepVelocity(last.pre, last.arg), last.arg)

C10_DissipationScalesDensity ==
  (last.op = "step" /\ last.pre.config.dissipation < One)
    => With(BeforeDissipation, LAMBDA m :
         /\ \A k \in DOMAIN fluid.density :
              /\ fluid.density[k] = RoundQ(m.density[k] * m.config.dissipation, Scale)
              /\ Abs(fluid.density[k]) <= Abs(m.density[k])
         /\ (\A k \in DOMAIN m.density : m.density[k] >= 0)
              => Total(fluid) <= Total(m))

C10_Witness ==
  /\ last.op = "step"
  /\ last.pre.config.dissipation < One
  /\ Total(last.pre) > 0
  /\ Total(fluid) > 0
  /\ Total(fluid) < Total(BeforeDissipation)
  /\ \E k \in DOMAIN fluid.density : ~Interior(fluid.size, k) /\ fluid.density[k] # 0

\* The boundary rule of field identity b on the ghost ring of x.
Avg(a, b) == RoundQ(a + b, 2)

GhostRule(N, b, x) ==
  LET sx == IF b = 1 THEN -1 ELSE 1
      sy == IF b = 2 THEN -1 ELSE 1
  IN /\ \A j \in 1 .. N : /\ x[IX(N, 0, j)] = sx * x[IX(N, 1, j)]
                          /\ x[IX(N, N + 1, j)] = sx * x[IX(N, N, j)]
     /\ \A i \in 1 .. N : /\ x[IX(N, i, 0)] = sy * x[IX(N, i, 1)]
                          /\ x[IX(N, i, N + 1)] = sy * x[IX(N, i, N)]
     /\ x[IX(N, 0, 0)] = Avg(x[IX(N, 1, 0)], x[IX(N, 0, 1)])
     /\ x[IX(N, 0, N + 1)] = Avg(x[IX(N, 1, N + 1)], x[IX(N, 0, N)])
     /\ x[IX(N, N + 1, 0)] = Avg(x[IX(N, N, 0)], x[IX(N, N + 1, 1)])
     /\ x[IX(N, N + 1, N + 1)] = Avg(x[IX(N, N, N + 1)], x[IX(N, N + 1, N)])

\* C11: after every public operation that modifies velocityX, velocityY
\* or density, the ghost ring of each of the three obeys its boundary rule
\* (b = 1 for velocityX, b = 2 for velocityY, b = 0 for density).
ModifyingOps == {"step", "addImpulse", "addVelocityImpulse", "reset",
                 "clearDye", "clearVelocity", "updateConfig"}

C11_GhostRingDerived ==
  last.op \in ModifyingOps
    => /\ GhostRule(fluid.size, 1, fluid.velocityX)
       /\ GhostRule(fluid.size, 2, fluid.velocityY)
       /\ GhostRule(fluid.size, 0, fluid.density)

\* C12: right after setBounds(b, x) the ghost ring of x obeys the rule of
\* b (left/right columns negate for b = 1, top/bottom rows for b = 2, all
\* four edges copy for b = 0, corners average their two edge neighbours),
\* no interior cell of x has changed and nothing else has.
C12_SetBoundsPostcondition ==
  last.op = "setBounds"
    => LET b == last.arg[1]
           n == last.arg[2]
           N == fluid.size
       IN /\ GhostRule(N, b, fluid[n])
          /\ \A k \in DOMAIN fluid[n] : Interior(N, k) => fluid[n][k] = last.pre[n][k]
          /\ DOMAIN fluid[n] = DOMAIN last.pre[n]
          /\ \A m \in FieldNames \ {n} : fluid[m] = last.pre[m]

C12_Witness ==
  /\ last.op = "setBounds"
  /\ last.arg[1] = 1
  /\ \E j \in 1 .. fluid.size :
       /\ fluid[last.arg[2]][IX(fluid.size, 1, j)] # 0
       /\ fluid[last.arg[2]][IX(fluid.size, 0, j)] = -fluid[last.arg[2]][IX(fluid.size, 1, j)]
  /\ \E i \in 1 .. fluid.size :
       /\ fluid[last.arg[2]][IX(fluid.size, i, 0)] # 0
       /\ fluid[last.arg[2]][IX(fluid.size, i, 0)] = fluid[last.arg[2]][IX(fluid.size, i, 1)]
  /\ fluid[last.arg[2]] # last.pre[last.arg[2]]

\* C20: addImpulse changes only interior density cells strictly within
\* distance r of the mapped centre, addVelocityImpulse changes only
\* velocityX and velocityY at the one mapped cell, which is interior;
\* neither changes a ghost cell, a Prev buffer, curl, the other field or
\* the configuration.
Changed(a, b) == {k \in DOMAIN a : a[k] # b[k]}

MappedCell(f, x) == Floor(x * f.size, Scale)

CellRadius(f, radius) == Max(Floor(radius * f.size, Scale), 1)

C20_ImpulsesWriteInteriorOnly ==
  /\ last.op = "addImpulse"
       => LET N == fluid.size
              cx == MappedCell(last.pre, last.arg[1])
              cy == MappedCell(last.pre, last.arg[2])
              r == CellRadius(last.pre, last.arg[3])
          IN /\ \A k \in Changed(fluid.density, last.pre.density) :
                  /\ Interior(N, k)
                  /\ (CellX(N, k) - cx) * (CellX(N, k) - cx)
                       + (CellY(N, k) - cy) * (CellY(N, k) - cy) < r * r
             /\ \A n \in FieldNames \ {"density"} : fluid[n] = last.pre[n]
             /\ fluid.config = last.pre.config /\ fluid.size = last.pre.size
  /\ last.op = "addVelocityImpulse"
       => LET N == fluid.size
              cx == MappedCell(last.pre, last.arg[1])
              cy == MappedCell(last.pre, last.arg[2])
          IN /\ \A k \in Changed(fluid.velocityX, last.pre.velocityX)
                         \cup Changed(fluid.velocityY, last.pre.velocityY) :
                  k = IX(N, cx, cy) /\ Interior(N, k)
             /\ \A n \in FieldNames \ {"velocityX", "velocityY"} :
                  fluid[n] = last.pre[n]
             /\ fluid.config = last.pre.config /\ fluid.size = last.pre.size

\* An impulse centred on the last interior column whose radius reaches
\* over the ghost ring.
C20_Witness ==
  /\ last.op = "addImpulse"
  /\ MappedCell(last.pre, last.arg[1]) = fluid.size
  /\ CellRadius(last.pre, last.arg[3]) > 1
  /\ Cardinality(Changed(fluid.density, last.pre.density)) > 1
  /\ SomeCell(last.pre.velocityX)

\* A step has just returned.
StepReturned == last.op = "step" /\ run.pc = "idle" /\ run.start = last.pre

\* C18: every step executes, in this order: diffuse velocityX, diffuse
\* velocityY (into the Prev buffers), project the Prev buffers, advect
\* velocityX, advect velocityY, vorticity confinement, project the current
\* velocity, diffuse density into densityPrev, advect density from
\* densityPrev along the velocity the second projection left, dissipation.
\* Projection runs twice and dissipation is the last write to density.
C18Order == <<"diffuseVX", "diffuseVY", "projectPrev", "advectVX", "advectVY",
              "vorticity", "projectCur", "diffuseD", "advectD", "dissipate">>

C18_PhaseOrder ==
  /\ Len(run.trace) <= Len(C18Order)
  /\ \A i \in DOMAIN run.trace : run.trace[i] = C18Order[i]
  /\ run.pc # "idle" => run.pc = C18Order[Len(run.trace) + 1]
  /\ StepReturned
       => /\ run.trace = C18Order
          /\ Cardinality({i \in DOMAIN run.trace :
                            run.trace[i] \in {"projectPrev", "projectCur"}}) = 2
          /\ fluid = step(last.pre, last.arg)
          /\ LET adv == advect(fluid, 0, fluid.density, fluid.densityPrev,
                               fluid.velocityX, fluid.velocityY, last.arg)
             IN \A k \in DOMAIN fluid.density :
                  fluid.density[k] = RoundQ(adv[k] * fluid.config.dissipation, Scale)

C18_Witness ==
  /\ StepReturned
  /\ Len(run.trace) = 10
  /\ SomeCell(last.pre.velocityX)
  /\ SomeCell(last.pre.density)
  /\ SomeCell(fluid.curl)
  /\ SomeCell(fluid.density)
  /\ fluid.density # last.pre.density

\* C19: every linearSolve performs exactly K = pressureIterations sweeps,
\* with setBounds applied to the solved buffer after each of them, and
\* never leaves its loop earlier; a step performs 5K sweeps in its five
\* solves, and a step that was begun returns.
C19_Sweeps ==
  LET K == fluid.config.pressureIterations
  IN /\ run.k <= K
     /\ \A i \in DOMAIN run.solves : run.solves[i] = K
     /\ Len(run.solves) <= 5
     /\ run.sweeps = K * Len(run.solves) + run.k
     /\ (run.pc \in SolvePhases /\ run.k >= 1)
          => GhostRule(fluid.size, SolveArgs[run.pc].b, fluid[SolveArgs[run.pc].x])
     /\ StepReturned => (Len(run.solves) = 5 /\ run.sweeps = 5 * K)

C19_FixedSweeps == [](C19_Sweeps) /\ ((run.pc # "idle") ~> (run.pc = "idle"))

C19_Witness ==
  /\ run.pc = "diffuseD"
  /\ fluid.config.pressureIterations >= 2
  /\ run.k = fluid.config.pressureIterations
  /\ run.sweeps = 5 * fluid.config.pressureIterations
  /\ SomeCell(fluid.densityPrev)
  /\ \E k \in DOMAIN fluid.densityPrev :
       ~Interior(fluid.size, k) /\ fluid.densityPrev[k] # 0

\* The frame callback has run in this step.
FrameRan == app'.frames = app.frames + 1

Emits(calls) ==
  \E k \in DOMAIN calls : calls[k] \in {"addImpulse", "addVelocityImpulse"}

\* C13: once a pointer event has come without the left button, no frame
\* calls addImpulse or addVelocityImpulse until a pointer event comes with
\* the left button held inside the viewport, whatever the sequence of
\* pointerdown, pointermove and pointerup events and their buttons.
C13_ReleaseStopsEmission ==
  [][(FrameRan /\ app.released) => ~Emits(app'.calls)]_vars

Count(calls, name) == Cardinality({k \in DOMAIN calls : calls[k] = name})

\* C16: in every frame addImpulse and addVelocityImpulse are each called at
\* most once and before any step of the frame, and getDyeField is called
\* exactly once, after all steps of the frame, on the solver as the steps
\* left it.
C16_FrameCallOrder ==
  app.frames > 0 =>
    /\ Count(app.calls, "addImpulse") <= 1
    /\ Count(app.calls, "addVelocityImpulse") <= 1
    /\ \A i, j \in DOMAIN app.calls :
         (app.calls[i] = "step" /\ Emits(<<app.calls[j]>>)) => j < i
    /\ Count(app.calls, "getDyeField") = 1
    /\ app.calls[Len(app.calls)] = "getDyeField"
    /\ dye = getDyeField(fluid)

\* A frame with the pointer pressed that ran several steps.
C16_Witness ==
  /\ app.frames > 0
  /\ Count(app.calls, "step") >= 2
  /\ Count(app.calls, "addImpulse") = 1
  /\ Count(app.calls, "addVelocityImpulse") = 1
  /\ SomeCell(fluid.density)

C14_SolverFollowsStore ==
  app.changes > 0 =>
    /\ fluid.config = app.state.simulation
    /\ fluid.size = app.state.simulation.resolution
    /\ fluid.gridSize = (fluid.size + 2) * (fluid.size + 2)

\* An activate() has failed in this step.
ActivationFailed == audio'.rejected = audio.rejected + 1

\* C15: when activate() fails because getUserMedia is rejected, the failed
\* call stores no analyser node and no data buffer, does not set active and
\* notifies no activation listener, and the editor's click handler catches
\* the failure; as long as no activation has succeeded the analyser is
\* inactive and getBandValue returns 0, also in the frames that ask for it.
C15_FailedActivationLeavesInactive ==
  /\ [][ActivationFailed =>
          /\ audio'.active = audio.active
          /\ audio'.analyser = audio.analyser
          /\ audio'.dataArray = audio.dataArray
          /\ audio'.notified = audio.notified
          /\ audio'.logged = audio.logged + 1
          /\ audio'.unhandled = audio.unhandled
          /\ app' = app]_vars
  /\ [](audio.notified = 0 =>
          /\ ~audio.active /\ ~audio.analyser /\ ~audio.dataArray
          /\ \A band \in BandValues : getBandValue(audio, band) = 0
          /\ app.strength = 0)

\* The microphone was refused, the store has been told by the smoothing or
\* gain input that audio is active, and a frame with the pointer pressed
\* has asked the analyser for its band.
C15_Witness ==
  /\ audio.rejected > 0
  /\ audio.logged = audio.rejected
  /\ audio.pending = 0
  /\ ~audio.active
  /\ app.state.audio.active
  /\ Emits(app.calls)

\* C21: in advect, for every interior destination cell and every velocity,
\* the back-traced coordinate is clamped to [0.5, N + 0.5] on each axis, so
\* that 0 <= i0 <= N, i1 = i0 + 1 <= N + 1, 0 <= j0 <= N, j1 = j0 + 1 <= N + 1
\* and the four cells read lie inside the (N + 2) x (N + 2) array.
C21_AdvectReadsInside ==
  probe.of = "advect" =>
    LET N == probe.N
        at == probe.at
    IN /\ 2 * at.x >= Pos /\ 2 * at.x <= (2 * N + 1) * Pos
       /\ 2 * at.y >= Pos /\ 2 * at.y <= (2 * N + 1) * Pos
       /\ 0 <= at.i0 /\ at.i0 <= N /\ at.i1 = at.i0 + 1 /\ at.i1 <= N + 1
       /\ 0 <= at.j0 /\ at.j0 <= N /\ at.j1 = at.j0 + 1 /\ at.j1 <= N + 1
       /\ \A a \in {at.i0, at.i1}, c \in {at.j0, at.j1} :
            IX(N, a, c) \in 0 .. ((N + 2) * (N + 2) - 1)

\* A cell whose back-trace leaves the grid on the far side in x and on the
\* near side in y: both clamps act.
C21_Witness ==
  /\ probe.of = "advect"
  /\ probe.vx < -Scale /\ probe.i - (probe.dt * probe.N * probe.vx) \div (Scale * Scale) > probe.N + 1
  /\ probe.vy > Scale /\ probe.j - (probe.dt * probe.N * probe.vy) \div (Scale * Scale) < 0
  /\ probe.at.i1 = probe.N + 1
  /\ probe.at.j0 = 0

\* A step without the vorticity-confinement phase.
stepWithoutConfinement(f, dt) ==
  With(postAdvection(f, dt), LAMBDA a :
  With(project(f, a.velocX, a.velocY, a.velocXPrev, a.velocYPrev), LAMBDA pr2 :
  With([f EXCEPT !.velocityX = pr2.velocX, !.velocityY = pr2.velocY,
                 !.velocityXPrev = pr2.p, !.velocityYPrev = pr2.div], LAMBDA f1 :
  With(stepDensity(f1, dt), LAMBDA f2 : applyDissipation(f2)))))

\* The phase applied to the solver's own velocity.
ConfinementOf(f, dt) == applyVorticityConfinement(f, f.velocityX, f.velocityY, dt)

\* C22: with curlStrength <= 0 the vorticity-confinement phase changes no
\* cell of velocityX, velocityY or curl, ghost ring included, and a step
\* returns what a step without that phase returns.
C22_ConfinementSkipped ==
  fluid.config.curlStrength <= 0 =>
    /\ \A dt \in Dts :
         ConfinementOf(fluid, dt) =
           [velocX |-> fluid.velocityX, velocY |-> fluid.velocityY, curl |-> fluid.curl]
    /\ (last.op = "step" /\ last.pre.config.curlStrength <= 0) =>
         /\ fluid.curl = last.pre.curl
         /\ fluid = stepWithoutConfinement(last.pre, last.arg)

\* A step returned with confinement disabled, over a curl buffer an earlier
\* step filled and a velocity field that still moves.
C22_Witness ==
  /\ last.op = "step"
  /\ fluid.config.curlStrength <= 0
  /\ SomeInterior(fluid, fluid.curl, LAMBDA v : v # 0)
  /\ SomeInterior(fluid, fluid.velocityX, LAMBDA v : v # 0)
  /\ fluid.velocityX # last.pre.velocityX

\* Half the difference of the two central differences at interior cell k.
vorticityAt(N, velocX, velocY, k) ==
  LET i == CellX(N, k)
      j == CellY(N, k)
  IN RoundQ((velocY[IX(N, i + 1, j)] - velocY[IX(N, i - 1, j)])
              - (velocX[IX(N, i, j + 1)] - velocX[IX(N, i, j - 1)]), 2)

\* Every interior curl cell of f holds the vorticity of velocity field a.
CurlIsVorticityOf(f, a) ==
  \A k \in DOMAIN f.curl :
    Interior(f.size, k) => f.curl[k] = vorticityAt(f.size, a.velocX, a.velocY, k)

\* C23 as stated: after every step, for every configuration, each interior
\* curl cell holds the vorticity of that step's post-advection velocity.
C23_CurlRecomputedEveryStep ==
  last.op = "step" => CurlIsVorticityOf(fluid, postAdvection(last.pre, last.arg))

\* C23: after every step taken with curlStrength > 0, each interior curl
\* cell holds the vorticity computed from that step's post-advection
\* velocity, never a value left over from an earlier step.
C23_CurlRecomputedWhenEnabled ==
  (last.op = "step" /\ last.pre.config.curlStrength > 0) =>
    CurlIsVorticityOf(fluid, postAdvection(last.pre, last.arg))

\* A step with confinement enabled replaced a curl buffer that an earlier
\* step had filled with other values.
C23_Witness ==
  /\ last.op = "step"
  /\ last.pre.config.curlStrength > 0
  /\ SomeInterior(last.pre, last.pre.curl, LAMBDA v : v # 0)
  /\ SomeInterior(fluid, fluid.curl, LAMBDA v : v # 0)
  /\ fluid.curl # last.pre.curl

\* project has reached its call of linearSolve and no sweep has run yet.
SolveStarts == run.pc \in {"projectPrev", "projectCur"} /\ run.k = 0

\* C24: when the relaxation solve of project starts, the pressure scratch
\* buffer is 0 in every cell, interior and ghost ring alike, whatever it
\* held before the call.
C24_PressureZeroed ==
  SolveStarts => \A k \in DOMAIN fluid[SolveArgs[run.pc].x] :
                   fluid[SolveArgs[run.pc].x][k] = 0

\* The first projection of a step is about to solve, and the buffer it uses
\* for the pressure, velocityX, came into the step with non-zero cells in
\* the interior and in the ghost ring.
C24_Witness ==
  /\ SolveStarts
  /\ run.pc = "projectPrev"
  /\ \E k \in DOMAIN run.start.velocityX :
       Interior(fluid.size, k) /\ run.start.velocityX[k] # 0
  /\ \E k \in DOMAIN run.start.velocityX :
       ~Interior(fluid.size, k) /\ run.start.velocityX[k] # 0

\* The cells of a whose value differs from b's.
CellsChanged(a, b) == {k \in DOMAIN a : a[k] # b[k]}

\* C25: addVelocityImpulse with 0 <= x <= 1, 0 <= y <= 1 and non-zero
\* vx * forceStrength changes velocityX at exactly one cell, an interior one.
C25_InsideHitsOneCell ==
  (/\ last.op = "addVelocityImpulse"
   /\ ~OutsideUnitSquare(last.arg[1], last.arg[2])
   /\ last.arg[3] * last.arg[5] # 0)
    => /\ Cardinality(CellsChanged(fluid.velocityX, last.pre.velocityX)) = 1
       /\ \A k \in CellsChanged(fluid.velocityX, last.pre.velocityX) :
            Interior(fluid.size, k)

\* C26: the renderer's mode is the mode of the last 'render:mode' event,
\* whatever store notifications followed it, until a preset is applied.
C26_ModeKept ==
  app.modeSelected # "none" => app.rendererConfig.mode = app.modeSelected

\* C27: the store's state.audio.active is true exactly when the analyser is
\* active.
C27_StoreMirrorsAnalyser == app.state.audio.active <=> audio.active

\* C28: once dispose() has returned, and until activate() is called again,
\* the analyser is inactive and stores no context, no analyser node and no
\* data buffer, whichever activations were waiting for getUserMedia.
C28_DisposedStaysInactive ==
  audio.disposed =>
    ~audio.active /\ ~audio.context /\ ~audio.analyser /\ ~audio.dataArray

\* C29: once App.dispose() has been called no frame callback runs: no step
\* of the solver, no impulse, no render.
C29_NoFrameAfterDispose == [][app.disposed => ~FrameRan]_vars

\* C30: once FluidRenderer.dispose() has been called the renderer holds no
\* GPU device, no WebGPU context, no 2D fallback context and no registered
\* resize listener, whatever was in flight and completes later.
C30_DisposedHoldsNothing ==
  renderer.disposed =>
    /\ ~renderer.device
    /\ ~renderer.context
    /\ ~renderer.fallback
    /\ ~renderer.listening

====
